---- MODULE Spec2Model ----
(***************************************************************************)
(* Model of the long-running-operation layer of the gcpcvs client          *)
(* (src/gcpcvs/gcpcvs.py): the retrying request executor (_do_api_post,    *)
(* _do_api_delete), createBackup with its completion poll, and the backup  *)
(* rotation rotateBackup.                                                  *)
(*                                                                         *)
(* Time is a clock in seconds (datetime.now()).  The remote service is the *)
(* environment: every HTTP exchange draws a response from a small set, and *)
(* a successful create / delete changes the set of backups the service     *)
(* holds.  Strings that the code inspects (backup names, the message of an *)
(* error body) are sequences: names are sequences of characters, messages  *)
(* are sequences of words.                                                 *)
(***************************************************************************)
EXTENDS Integers, Sequences, FiniteSets, TLC

VARIABLES
    now,              \* datetime.now(), in seconds
    op,               \* the public method the caller invoked ("none" before the call)
    op_out,           \* how that call ended: "running", "returned", "raised"
    op_result,        \* its return value, or the exception that escaped
    \* ---- frame of _do_api_post / _do_api_delete
    ex_pc,            \* "off", "request", "sleep", "exit"
    ex_method,        \* "POST" or "DELETE"
    ex_url,           \* the target of the request
    ex_caller,        \* who called the executor: "direct" or the name of a method
    timeout_seconds,  \* parameter timeout_seconds
    target_time,      \* local target_time
    r,                \* the last response: [status, reason]
    nreq,             \* requests sent by this invocation (history)
    nsleep,           \* backoff sleeps of this invocation (history)
    last_sleep,       \* duration of the last backoff sleep (history)
    log,              \* the log records of this invocation, in order
    \* ---- frame of rotateBackup / createBackup / deleteBackupByBackupID
    rot_pc,           \* "off", "list1", "getvol", "create", "poll", "fetch", "list2",
                      \* "prune", "done", "raised"
    count,            \* parameter count of rotateBackup
    backupname,       \* local backupname of rotateBackup
    backupID,         \* local backupID of createBackup / parameter of deleteBackupByBackupID
    sortedbackups,    \* local sortedbackups of rotateBackup
    i,                \* local i of rotateBackup
    backupToDelete,   \* local backupToDelete of rotateBackup
    first_listing,    \* length of the first listing (history)
    post_ok,          \* the create POST was answered 201/202 (history)
    polled_available, \* the poll fetched lifeCycleState "available" (history)
    npoll,            \* fetches of the poll loop of the operation (history)
    \* ---- frame of createVolume / createPool / breakVolumeReplicationByID
    lro_pc,           \* "off", "post", "get", "poll", "fetch", "done", "raised"
    start,            \* local start of breakVolumeReplicationByID
    fetched,          \* the states the poll loop fetched, in order (history)
    get_status,       \* status of the answer to the last _do_api_get (history)
    npollsleep,       \* sleeps of the poll loop of the operation (history)
    \* ---- the request loops of the legacy class GCPCVS (src/GCPCVS.py)
    lg_pc,            \* "off", "request", "sleep", "exit"
    retries,          \* local retries of createVolume / deleteVolumeByVolumeID
    \* ---- the methods without a loop of their own
    args,             \* the arguments of the call and the values it read
    translated,       \* results of the service level translations, in order
    sent_payload,     \* the body of the PUT of _modifyVolumeByVolumeID
    \* ---- further calls of rotateBackup
    nrepeat,          \* calls of rotateBackup made after the first one had ended
    o_pc,             \* position of a second, concurrent call of rotateBackup: "off",
                      \* "list1", "create", "list2", "prune", "done", "raised"
    o_backupID,       \* its local backupID
    o_sortedbackups,  \* its local sortedbackups
    o_i,              \* its local i
    o_backupToDelete, \* its local backupToDelete
    \* ---- the remote service and the wire
    backups,          \* the backups the service holds for the volume
    net               \* every HTTP request sent, in order: [m, url]

exvars  == <<ex_pc, ex_method, ex_url, ex_caller, timeout_seconds, target_time,
             r, nreq, nsleep, last_sleep, log>>
rotvars == <<rot_pc, count, backupname, backupID, sortedbackups, i, backupToDelete,
             first_listing, post_ok, polled_available, npoll>>
lrovars == <<lro_pc, start, fetched>>
pollvars == <<get_status, npollsleep>>
legvars == <<lg_pc, retries>>
convars == <<nrepeat, o_pc, o_backupID, o_sortedbackups, o_i, o_backupToDelete>>
miscvars == <<args, translated, sent_payload>>
opvars  == <<op, op_out, op_result>>
vars    == <<now, opvars, exvars, rotvars, lrovars, pollvars, legvars, convars, miscvars,
             backups, net>>

(***************************************************************************)
(* Bounds of the model.                                                    *)
(***************************************************************************)
MaxLatency == 1        \* longest time one HTTP exchange takes, in seconds
MaxPolls   == 3        \* fetches of an unbounded poll loop that are explored
MaxBusy    == 2        \* 409/429/500 answers in a row to one request on a backup
MaxRepeats == 2        \* calls of rotateBackup after the first one

(***************************************************************************)
(* HTTP responses.                                                         *)
(***************************************************************************)
JobPhrase    == <<"Cannot", "spawn", "additional", "jobs">>
MsgQueueFull == <<"Error", "creating", "volume", "-">> \o JobPhrase
MsgOther     == <<"Internal", "error">>

\* r.json(): an error body with or without the field 'message'
BodyNoMessage    == [code |-> 0]
BodyWith(message) == [code |-> 0, message |-> message]
Bodies == {BodyNoMessage, BodyWith(MsgQueueFull), BodyWith(MsgOther)}

Statuses == {200, 201, 202, 404, 409, 429, 500, 503}
Responses == {[status |-> s, reason |-> b] : s \in {409, 429, 500}, b \in Bodies}
             \cup {[status |-> s, reason |-> BodyNoMessage] :
                       s \in {200, 201, 202, 404, 503}}
BusyStatuses == {409, 429, 500}
NoResponse == [status |-> 0, reason |-> BodyNoMessage]

\* variant of Contains: the needle is looked for at the start only (startswith)
StartsWith(haystack, needle) ==
    /\ Len(haystack) >= Len(needle)
    /\ SubSeq(haystack, 1, Len(needle)) = needle

\* Python's  needle in haystack  on strings, here on sequences of words
Contains(haystack, needle) ==
    \E k \in 0..(Len(haystack) - Len(needle)) :
        SubSeq(haystack, k + 1, k + Len(needle)) = needle

\* variant of RaisesForStatus: only the server errors raise
RaisesForServerErrors(status) == status >= 500 /\ status < 600

\* variant of RaisesForStatus: only the client errors raise
RaisesForClientErrors(status) == status >= 400 /\ status < 500

\* variant of RaisesForStatus: everything but 200 and 202 raises
RaisesUnless200Or202(status) == status \notin {200, 202}

\* requests.Response.raise_for_status(): raises HTTPError for 4xx and 5xx
RaisesForStatus(status) == status >= 400 /\ status < 600


(***************************************************************************)
(* The retrying request executor: _do_api_post and _do_api_delete.         *)
(***************************************************************************)
BackoffLo == 50        \* sleep(random.randrange(50,70)): 50 <= d < 70
BackoffHi == 70
\* the draws that are explored: the extremes of random.randrange(50,70)
BackoffDraws == {BackoffLo, BackoffHi - 1}
Latencies    == {0, MaxLatency}

PostDefaultTimeout   == 600
DeleteDefaultTimeout == 120
\* a window shorter than any backoff sleep
ShortTimeout == 1
\* timeout_seconds of a direct call: "0 for no error handling", a window
\* shorter than a sleep, and the defaults
DirectTimeouts == {0, ShortTimeout, DeleteDefaultTimeout, PostDefaultTimeout}

\* msg of the 500 branch: reason['message'] if 'message' in reason else "error"
MessageOf(reason) ==
    IF "message" \in DOMAIN reason THEN reason.message ELSE <<"error">>

\* variant of do_api_post_body: 409 is left out of the retried statuses
do_api_post_body_no409(ts, resp) ==
    IF ts = 0 THEN "break"
    ELSE IF resp.status \in {200, 202} THEN "break"
    ELSE IF resp.status \in {429, 500} THEN
        IF resp.status = 500 /\ ~Contains(MessageOf(resp.reason), JobPhrase)
        THEN "break"
        ELSE "sleep"
    ELSE "break"

\* variant of do_api_post_body: timeout_seconds == 0 is not looked at
do_api_post_body_no_window0(ts, resp) ==
    IF resp.status \in {200, 202} THEN "break"
    ELSE IF resp.status \in {429, 409, 500} THEN
        IF resp.status = 500 /\ ~Contains(MessageOf(resp.reason), JobPhrase)
        THEN "break"
        ELSE "sleep"
    ELSE "break"

\* one pass of the body of  while True  in _do_api_post after the response
\* arrived: "break" leaves the loop, "sleep" goes on to the backoff sleep
do_api_post_body(ts, resp) ==
    IF ts = 0 THEN "break"
    ELSE IF resp.status \in {200, 202} THEN "break"
    ELSE IF resp.status \in {429, 409, 500} THEN
        IF resp.status = 500 /\ ~Contains(MessageOf(resp.reason), JobPhrase)
        THEN "break"
        ELSE "sleep"
    ELSE "break"

\* variant of do_api_delete_body: a 500 is retried whatever its message
do_api_delete_body_retry500(ts, resp) ==
    IF ts = 0 THEN "break"
    ELSE IF resp.status \in {200, 202} THEN "break"
    ELSE IF resp.status \in {429, 409, 500} THEN "sleep"
    ELSE "break"

\* variant of do_api_delete_body: timeout_seconds == 0 is not looked at
do_api_delete_body_no_window0(ts, resp) ==
    IF resp.status \in {200, 202} THEN "break"
    ELSE IF resp.status \in {429, 409, 500} THEN
        IF resp.status = 500 /\ ~Contains(MessageOf(resp.reason), JobPhrase)
        THEN "break"
        ELSE "sleep"
    ELSE "break"

\* the same pass in _do_api_delete
do_api_delete_body(ts, resp) ==
    IF ts = 0 THEN "break"
    ELSE IF resp.status \in {200, 202} THEN "break"
    ELSE IF resp.status \in {429, 409, 500} THEN
        IF resp.status = 500 /\ ~Contains(MessageOf(resp.reason), JobPhrase)
        THEN "break"
        ELSE "sleep"
    ELSE "break"

\* the records of the log, by level and text
LogEntry     == "info: API <method> <url>"
LogReturned  == "warning: <url> returned: <text>"
LogWarning   == "warning: API POST: <reason>"
LogError     == "error: API POST: <reason>"

\* the response hook of every request:
\* if resp.status_code not in [200, 202]: logging.warning(...)
log_response(resp) ==
    IF resp.status \notin {200, 202} THEN <<LogReturned>> ELSE <<>>

\* the log records one pass of the loop writes once the response has arrived:
\* the record of the hook, then those of the loop body (the same statements
\* in _do_api_post and _do_api_delete)
do_api_log(ts, resp) ==
    log_response(resp) \o
    (IF ts = 0 THEN (IF resp.status \notin {200, 202} THEN <<LogError>> ELSE <<>>)
     ELSE IF resp.status \in {200, 202} THEN <<>>
     ELSE IF resp.status \in {429, 409, 500} THEN
         IF resp.status = 500 /\ ~Contains(MessageOf(resp.reason), JobPhrase)
         THEN <<LogWarning, LogError>>
         ELSE <<LogWarning>>
     ELSE <<LogError>>)

LoopBody(method, ts, resp) ==
    IF method = "POST" THEN do_api_post_body(ts, resp)
    ELSE do_api_delete_body(ts, resp)

\* variant of DeadlineReached: the loop is left when less than one shortest
\* sleep remains
DeadlineReachedEarly(t, target) == t + BackoffLo >= target

\* variant of DeadlineReached: the deadline itself does not count yet
DeadlineReachedLate(t, target) == t > target

\* the check after the sleep:  if datetime.now() >= target_time: break
DeadlineReached(t, target) == t >= target

\* variant of EnterExecutorAt: the deadline is counted from the start of the
\* public method, not from the entry into the executor
EnterExecutorSharedBudget(method, url, ts, caller, t) ==
    /\ ex_pc' = "request"
    /\ ex_method' = method
    /\ ex_url' = url
    /\ ex_caller' = caller
    /\ timeout_seconds' = ts
    /\ target_time' = 60 * 60 + ts
    /\ r' = NoResponse
    /\ nreq' = 0
    /\ nsleep' = 0
    /\ last_sleep' = 0
    /\ log' = <<LogEntry>>

\* entering _do_api_post / _do_api_delete at the instant t:
\* target_time = datetime.now() + timedelta(seconds = timeout_seconds)
EnterExecutorAt(method, url, ts, caller, t) ==
    /\ ex_pc' = "request"
    /\ ex_method' = method
    /\ ex_url' = url
    /\ ex_caller' = caller
    /\ timeout_seconds' = ts
    /\ target_time' = t + ts
    /\ r' = NoResponse
    /\ nreq' = 0
    /\ nsleep' = 0
    /\ last_sleep' = 0
    /\ log' = <<LogEntry>>        \* logging.info(f"API POST {url}")

\* the same when no time has passed since the last step
EnterExecutor(method, url, ts, caller) == EnterExecutorAt(method, url, ts, caller, now)

\* the frame is gone once the executor has returned to a method of the class
LeaveExecutor ==
    /\ ex_pc' = "off"
    /\ nreq' = 0
    /\ nsleep' = 0
    /\ last_sleep' = 0
    /\ UNCHANGED <<ex_method, ex_url, ex_caller, timeout_seconds, target_time, r, log>>

UrlOther   == [kind |-> "Volumes", id |-> 0]
UrlBackups == [kind |-> "Backups", id |-> 0]
UrlBackup(id) == [kind |-> "Backup", id |-> id]
UrlVolumeBackups == [kind |-> "VolumeBackups", id |-> 0]
UrlVolume  == [kind |-> "Volume", id |-> 0]


(***************************************************************************)
(* Backup names and the pattern of rotateBackup.                           *)
(***************************************************************************)
max_backups == 32

\* the volume of the rotation: vols[0]["name"] and the parameter volumeID
VolumeName == <<"d", "b">>
VolumeID   == <<"a", "1", "b", "2", "c", "3", "d", "4">>

DigitChars == <<"0", "1", "2", "3", "4", "5", "6", "7", "8", "9">>
Digits     == {DigitChars[k] : k \in 1..10}
TwoDigits(n) == <<DigitChars[((n \div 10) % 10) + 1], DigitChars[(n % 10) + 1]>>

\* variant of IsoMinutes: the seconds are part of the text (timespec='seconds')
IsoSeconds(t) ==
    <<"2", "0", "2", "4", "-", "0", "1", "-">> \o TwoDigits((t \div 86400) + 1)
    \o <<"T">> \o TwoDigits((t \div 3600) % 24) \o <<":">> \o TwoDigits((t \div 60) % 60)
    \o <<":">> \o TwoDigits(t % 60)

\* datetime.isoformat(timespec='minutes') of the instant t (seconds since
\* 2024-01-01T00:00:00, within January): "YYYY-MM-DDTHH:MM"
IsoMinutes(t) ==
    <<"2", "0", "2", "4", "-", "0", "1", "-">> \o TwoDigits((t \div 86400) + 1)
    \o <<"T">> \o TwoDigits((t \div 3600) % 24) \o <<":">> \o TwoDigits((t \div 60) % 60)

\* volumehash = volumeID[0:6]
VolumeHash(volumeID) == SubSeq(volumeID, 1, 6)

\* backupname = f"{volumename}-{volumehash}-{datetime.now().isoformat(timespec='minutes')}"
BackupName(volumename, volumeID, t) ==
    volumename \o <<"-">> \o VolumeHash(volumeID) \o <<"-">> \o IsoMinutes(t)

\* the regular expression  f"{volumename}-......-\d\d\d\d-\d\d-\d\dT\d\d:\d\d"
\* as a sequence of atoms.  The volume name is put into the expression
\* unescaped: a "." in it is the wildcard, the letters, digits and "-" of
\* the names used here stand for themselves.
Lit(c)   == [t |-> "lit", c |-> c]
AnyChar  == [t |-> "any", c |-> "."]
DigitAtom == [t |-> "digit", c |-> "d"]
NameAtoms(volumename) ==
    [k \in 1..Len(volumename) |->
        IF volumename[k] = "." THEN AnyChar ELSE Lit(volumename[k])]
BackupPattern(volumename) ==
    NameAtoms(volumename) \o <<Lit("-")>>
    \o <<AnyChar, AnyChar, AnyChar, AnyChar, AnyChar, AnyChar>> \o <<Lit("-")>>
    \o <<DigitAtom, DigitAtom, DigitAtom, DigitAtom, Lit("-"), DigitAtom, DigitAtom,
         Lit("-"), DigitAtom, DigitAtom, Lit("T"), DigitAtom, DigitAtom, Lit(":"),
         DigitAtom, DigitAtom>>

AtomMatches(atom, c) ==
    CASE atom.t = "lit"   -> c = atom.c
      [] atom.t = "any"   -> c # "\n"
      [] atom.t = "digit" -> c \in Digits

\* re.Pattern.match: the pattern must match at the start of the string;
\* what follows the match is not looked at
PatternMatch(pattern, str) ==
    /\ Len(str) >= Len(pattern)
    /\ \A k \in 1..Len(pattern) : AtomMatches(pattern[k], str[k])

\* variant of MatchingBackups: only the names that begin with the volume name
\* and the first six characters of the volume id are kept
MatchingGenerated(listing, volumename) ==
    {b \in listing :
        LET prefix == volumename \o <<"-">> \o VolumeHash(VolumeID) \o <<"-">>
        IN  Len(b.name) >= Len(prefix) /\ SubSeq(b.name, 1, Len(prefix)) = prefix}

\* [backup for backup in listing if p.match(backup["name"])]
MatchingBackups(listing, volumename) ==
    {b \in listing : PatternMatch(BackupPattern(volumename), b.name)}

\* variant of SortedDescending: oldest first
RECURSIVE SortedAscending(_)
SortedAscending(S) ==
    IF S = {} THEN <<>>
    ELSE LET oldest == CHOOSE b \in S : \A c \in S : b.created <= c.created
         IN  <<oldest>> \o SortedAscending(S \ {oldest})

\* sorted(backups, key=created, reverse=True): most recent first.  The
\* field 'created' is held as the instant datetime.fromisoformat parses it to.
RECURSIVE SortedDescending(_)
SortedDescending(S) ==
    IF S = {} THEN <<>>
    ELSE LET newest == CHOOSE b \in S : \A c \in S : c.created <= b.created
         IN  <<newest>> \o SortedDescending(S \ {newest})

\* variant of RetentionValid: a count of 0 is let through
RetentionValidFromZero(c) == 0 <= c /\ c <= max_backups - 2

\* variant of RetentionValid: the upper limit is off by one
RetentionValidOffByOne(c) == 1 <= c /\ c <= max_backups - 1

\* 1 <= count <= max_backups - 2
RetentionValid(c) == 1 <= c /\ c <= max_backups - 2

\* variant of QuotaReached: only a listing above the maximum stops the rotation
QuotaExceededOnly(n) == n > max_backups

\* len(backups) == max_backups
QuotaReached(n) == n = max_backups

\* createBackup: r.status_code == 201 or r.status_code == 202
CreateAccepted(status) == status = 201 \/ status = 202

\* deleteBackupByBackupID: r.status_code in [200, 202]
DeleteSucceeded(status) == status \in {200, 202}

\* variant of RotationContinues: the result of createBackup is not looked at
RotationContinuesAlways(created) == TRUE

\* rotateBackup:  if not self.createBackup(...): return False
RotationContinues(created) == created

\* the methods the class gcpcvs defines for backups (def lines 812-949)
BackupMethods == {"getBackups", "getBackupsByVolumeID", "createBackup", "rotateBackup",
                  "deleteBackupByBackupID", "deleteBackupByName",
                  "deleteAllBackupsByVolumeID"}
\* attribute lookup self.<name>: AttributeError if the class has no such method
HasMethod(name) == name \in BackupMethods

(***************************************************************************)
(* The backups the service holds when the call starts.                     *)
(***************************************************************************)
Backup(id, name, created) == [backupId |-> id, name |-> name, created |-> created]
Minute(k) == 60 * k
GeneratedBackup(k) == Backup(k, BackupName(VolumeName, VolumeID, Minute(k)), Minute(k))
\* a backup made by hand whose name happens to fit the expression
ManualNamedLike(k) ==
    Backup(k, VolumeName \o <<"-", "m", "a", "n", "u", "a", "l", "-">> \o IsoMinutes(Minute(k)),
           Minute(k))
\* a backup made by hand with a name of its own
ManualPlain(k) == Backup(k, <<"k", "e", "e", "p">> \o TwoDigits(k), Minute(k))

FxEmpty  == {}
FxSmall  == {GeneratedBackup(2), GeneratedBackup(3), ManualPlain(1)}
FxManual == {ManualNamedLike(1), GeneratedBackup(2), GeneratedBackup(3), ManualPlain(4)}
FxSeven  == {GeneratedBackup(k) : k \in 3..8} \cup {ManualPlain(1), ManualPlain(2)}
FxFull   == {GeneratedBackup(k) : k \in 1..max_backups}
Fixtures == {FxEmpty, FxSmall, FxManual, FxSeven, FxFull}

Counts    == {0, 1, 3, max_backups - 2, max_backups - 1}
StartTime == 60 * 60

NewBackupId == 1 + Cardinality(backups) + max_backups
\* the id in the answer to the create POST of the first call: the highest id
\* but for that of the backup a second call has made
CreatedBackupId ==
    LET ids == {b.backupId : b \in backups} \ {o_backupID}
    IN  CHOOSE m \in ids : \A k \in ids : k <= m


(***************************************************************************)
(* Initial states.                                                         *)
(***************************************************************************)
NoBackup == Backup(0, <<>>, 0)
NoArgs    == [none |-> TRUE]
NoPayload == [none |-> TRUE]

InitFrames ==
    /\ now = StartTime
    /\ op = "none" /\ op_out = "running" /\ op_result = "None"
    /\ ex_pc = "off" /\ ex_method = "POST" /\ ex_url = UrlOther /\ ex_caller = "direct"
    /\ timeout_seconds = 0 /\ target_time = 0
    /\ r = NoResponse
    /\ nreq = 0 /\ nsleep = 0 /\ last_sleep = 0
    /\ rot_pc = "off" /\ count = 0 /\ backupname = <<>> /\ backupID = 0
    /\ sortedbackups = <<>> /\ i = 0 /\ backupToDelete = NoBackup
    /\ first_listing = 0 /\ post_ok = FALSE /\ polled_available = FALSE /\ npoll = 0
    /\ lro_pc = "off" /\ start = 0 /\ fetched = <<>>
    /\ log = <<>> /\ get_status = 0 /\ npollsleep = 0
    /\ lg_pc = "off" /\ retries = 0
    /\ nrepeat = 0 /\ o_pc = "off" /\ o_backupID = 0
    /\ o_sortedbackups = <<>> /\ o_i = 0 /\ o_backupToDelete = NoBackup
    /\ args = NoArgs /\ translated = <<>> /\ sent_payload = NoPayload
    /\ net = <<>>

Init     == InitFrames /\ backups \in Fixtures
InitExec == InitFrames /\ backups = FxEmpty

(***************************************************************************)
(* The executor as a state machine.                                        *)
(***************************************************************************)
\* what the service holds after it answered `resp` to the request
RemoteAfter(method, url, resp, t) ==
    IF method = "POST" /\ url.kind = "Backups" /\ resp.status \in {200, 201, 202}
    THEN backups \cup {Backup(NewBackupId, backupname, t)}
    ELSE IF method = "DELETE" /\ url.kind = "Backup" /\ resp.status \in {200, 202}
    THEN {b \in backups : b.backupId # url.id}
    ELSE backups

\* a caller invokes _do_api_post(url, payload, ts) (createVolume, createPool, ...)
CallPost ==
    /\ op = "none"
    /\ \E ts \in DirectTimeouts :
        EnterExecutor("POST", UrlOther, ts, "direct")
    /\ op' = "_do_api_post"
    /\ UNCHANGED <<now, op_out, op_result, rotvars, lrovars, backups, net>>
    /\ UNCHANGED <<pollvars, legvars, convars, miscvars>>

\* a caller invokes _do_api_delete(url, ts) (deleteVolumeByVolumeID, ...)
CallDelete ==
    /\ op = "none"
    /\ \E ts \in DirectTimeouts :
        EnterExecutor("DELETE", UrlOther, ts, "direct")
    /\ op' = "_do_api_delete"
    /\ UNCHANGED <<now, op_out, op_result, rotvars, lrovars, backups, net>>
    /\ UNCHANGED <<pollvars, legvars, convars, miscvars>>

\* r = requests.post(...) / requests.delete(...); reason = r.json(); then the
\* body of the loop up to the sleep
ExRequest ==
    /\ ex_pc = "request"
    /\ \E resp \in Responses, lat \in Latencies :
        /\ (ex_caller # "direct" /\ resp.status \in BusyStatuses) => nreq < MaxBusy
        /\ now' = now + lat
        /\ net' = Append(net, [m |-> ex_method, url |-> ex_url])
        /\ backups' = RemoteAfter(ex_method, ex_url, resp, now + lat)
        /\ r' = resp
        /\ nreq' = nreq + 1
        /\ log' = log \o do_api_log(timeout_seconds, resp)
        /\ ex_pc' = IF LoopBody(ex_method, timeout_seconds, resp) = "sleep"
                    THEN "sleep" ELSE "exit"
    /\ UNCHANGED <<opvars, ex_method, ex_url, ex_caller, timeout_seconds, target_time,
                   nsleep, last_sleep, rotvars, lrovars>>
    /\ UNCHANGED <<pollvars, legvars, convars, miscvars>>

\* sleep(random.randrange(50,70)), then  if datetime.now() >= target_time: break
ExSleep ==
    /\ ex_pc = "sleep"
    /\ \E d \in BackoffDraws :
        /\ now' = now + d
        /\ last_sleep' = d
        /\ nsleep' = nsleep + 1
        /\ ex_pc' = IF DeadlineReached(now + d, target_time) THEN "exit" ELSE "request"
    /\ UNCHANGED <<opvars, ex_method, ex_url, ex_caller, timeout_seconds, target_time,
                   r, nreq, rotvars, lrovars, backups, net>>
    /\ UNCHANGED <<pollvars, legvars, convars, miscvars>>
    /\ UNCHANGED log

\* r.raise_for_status(); return r   -- back in the caller of a direct call
ExReturn ==
    /\ ex_pc = "exit" /\ ex_caller = "direct"
    /\ ex_pc' = "done"
    /\ op_out' = IF RaisesForStatus(r.status) THEN "raised" ELSE "returned"
    /\ op_result' = IF RaisesForStatus(r.status) THEN "HTTPError" ELSE "response"
    /\ UNCHANGED <<now, op, ex_method, ex_url, ex_caller, timeout_seconds, target_time,
                   r, nreq, nsleep, last_sleep, rotvars, lrovars, backups, net>>
    /\ UNCHANGED <<pollvars, legvars, convars, miscvars>>
    /\ UNCHANGED log

NextExec == CallPost \/ CallDelete \/ ExRequest \/ ExSleep \/ ExReturn
SpecExec == InitExec /\ [][NextExec]_vars


(***************************************************************************)
(* rotateBackup, createBackup and deleteBackupByBackupID.                  *)
(***************************************************************************)
\* _do_api_get: the status of the answer; raise_for_status() turns the
\* second into HTTPError
GetStatuses     == {200, 503}
LifeCycleStates == {"creating", "available", "error"}
PollInterval    == 5

\* variant of PollLoopTop: the loop begins with the fetch
PollLoopTopFetch == "fetch"

\* while True: sleep(...); r = self._do_api_get(...)  -- a pass of a poll
\* loop begins with its sleep
PollLoopTop == "poll"

\* an exception escapes rotateBackup
RotRaise(exception) ==
    /\ rot_pc' = "raised"
    /\ op_out' = "raised"
    /\ op_result' = exception

\* rotateBackup returns
RotReturn(value) ==
    /\ rot_pc' = "done"
    /\ op_out' = "returned"
    /\ op_result' = value

\* createBackup returns `created`: to rotateBackup, whose
\* if not self.createBackup(...): return False  follows, or to its own caller
CreateBackupReturns(created) ==
    IF op = "rotateBackup"
    THEN IF RotationContinues(created)
         THEN rot_pc' = "list2" /\ UNCHANGED <<op_out, op_result>>
         ELSE RotReturn("False")
    ELSE RotReturn(IF created THEN "True" ELSE "False")

\* rotateBackup(region, volumeID, count) up to the check of count
CallRotateBackup ==
    /\ op = "none"
    /\ op' = "rotateBackup"
    /\ \E c \in Counts :
        /\ count' = c
        /\ IF RetentionValid(c)
           THEN rot_pc' = "list1" /\ UNCHANGED <<op_out, op_result>>
           ELSE RotReturn("False")
    /\ UNCHANGED <<now, exvars, backupname, backupID, sortedbackups, i, backupToDelete,
                   first_listing, post_ok, polled_available, npoll, backups, net>>
    /\ UNCHANGED lrovars
    /\ UNCHANGED <<pollvars, legvars, convars, miscvars>>

\* backups = self.getBackupsByVolumeID(...); if len(backups) == max_backups: return False
RotList1 ==
    /\ rot_pc = "list1"
    /\ net' = Append(net, [m |-> "GET", url |-> UrlVolumeBackups])
    /\ \E status \in GetStatuses, lat \in Latencies :
        /\ now' = now + lat
        /\ get_status' = status
        /\ IF RaisesForStatus(status)
           THEN RotRaise("HTTPError") /\ UNCHANGED first_listing
           ELSE /\ first_listing' = Cardinality(backups)
                /\ IF QuotaReached(Cardinality(backups))
                   THEN RotReturn("False")
                   ELSE rot_pc' = "getvol" /\ UNCHANGED <<op_out, op_result>>
    /\ UNCHANGED <<op, exvars, count, backupname, backupID, sortedbackups, i,
                   backupToDelete, post_ok, polled_available, npoll, backups>>
    /\ UNCHANGED <<lrovars, npollsleep, legvars, convars, miscvars>>

\* vols = self.getVolumesByVolumeID(...); volumename = vols[0]["name"];
\* (the answer is taken to be the list with the one volume that the
\* docstring of getVolumesByVolumeID describes)
\* backupname = ...; createBackup(...) up to the call of _do_api_post(url, body, 10*60)
RotGetVolume ==
    /\ rot_pc = "getvol"
    /\ net' = Append(net, [m |-> "GET", url |-> UrlVolume])
    /\ \E status \in GetStatuses, lat \in Latencies :
        /\ now' = now + lat
        /\ get_status' = status
        /\ IF RaisesForStatus(status)
           THEN RotRaise("HTTPError") /\ UNCHANGED <<exvars, backupname>>
           ELSE /\ backupname' = BackupName(VolumeName, VolumeID, now + lat)
                /\ EnterExecutorAt("POST", UrlBackups, 10 * 60, "createBackup", now + lat)
                /\ rot_pc' = "create"
                /\ UNCHANGED <<op_out, op_result>>
    /\ UNCHANGED <<op, count, backupID, sortedbackups, i, backupToDelete,
                   first_listing, post_ok, polled_available, npoll, backups>>
    /\ UNCHANGED <<lrovars, npollsleep, legvars, convars, miscvars>>

\* createBackup after _do_api_post: raise_for_status(), then
\* if r.status_code == 201 or r.status_code == 202: poll, else: return False
CreateBackupAfterPost ==
    /\ ex_pc = "exit" /\ ex_caller = "createBackup"
    /\ LeaveExecutor
    /\ IF RaisesForStatus(r.status)
       THEN RotRaise("HTTPError") /\ UNCHANGED <<backupID, post_ok>>
       ELSE IF CreateAccepted(r.status)
       THEN /\ backupID' = CreatedBackupId
            /\ post_ok' = TRUE
            /\ rot_pc' = PollLoopTop
            /\ UNCHANGED <<op_out, op_result>>
       ELSE CreateBackupReturns(FALSE) /\ UNCHANGED <<backupID, post_ok>>
    /\ UNCHANGED <<now, op, count, backupname, sortedbackups, i, backupToDelete,
                   first_listing, polled_available, npoll, backups, net>>
    /\ UNCHANGED lrovars
    /\ UNCHANGED <<pollvars, legvars, convars, miscvars>>

\* the first statement of a pass of createBackup's poll: sleep(5)
BackupPollSleep ==
    /\ rot_pc = "poll"
    /\ npollsleep < MaxPolls
    /\ now' = now + PollInterval
    /\ npollsleep' = npollsleep + 1
    /\ rot_pc' = "fetch"
    /\ UNCHANGED <<opvars, exvars, count, backupname, backupID, sortedbackups, i,
                   backupToDelete, first_listing, post_ok, polled_available, npoll,
                   lrovars, get_status, legvars, convars, miscvars, backups, net>>

\* r = self._do_api_get(...); status = r.json()["lifeCycleState"];
\* if status == "available": break  -- and then return True
BackupPoll ==
    /\ rot_pc = "fetch"
    /\ net' = Append(net, [m |-> "GET", url |-> UrlBackup(backupID)])
    /\ npoll' = npoll + 1
    /\ \E status \in GetStatuses, state \in LifeCycleStates :
        /\ get_status' = status
        /\ IF RaisesForStatus(status)
           THEN RotRaise("HTTPError") /\ UNCHANGED <<polled_available, fetched>>
           ELSE /\ fetched' = Append(fetched, state)
                /\ IF state = "available"
                   THEN polled_available' = TRUE /\ CreateBackupReturns(TRUE)
                   ELSE /\ rot_pc' = PollLoopTop
                        /\ UNCHANGED <<op_out, op_result, polled_available>>
    /\ UNCHANGED <<now, op, exvars, count, backupname, backupID, sortedbackups, i,
                   backupToDelete, first_listing, post_ok, lro_pc, start, backups>>
    /\ UNCHANGED <<npollsleep, legvars, convars, miscvars>>

\* the second listing, the filter, the sort and  i = count
RotList2 ==
    /\ rot_pc = "list2"
    /\ net' = Append(net, [m |-> "GET", url |-> UrlVolumeBackups])
    /\ \E status \in GetStatuses :
        /\ get_status' = status
        /\ IF RaisesForStatus(status)
           THEN RotRaise("HTTPError") /\ UNCHANGED <<sortedbackups, i>>
           ELSE /\ sortedbackups' = SortedDescending(MatchingBackups(backups, VolumeName))
                /\ i' = count
                /\ rot_pc' = "prune"
                /\ UNCHANGED <<op_out, op_result>>
    /\ UNCHANGED <<now, op, exvars, count, backupname, backupID, backupToDelete,
                   first_listing, post_ok, polled_available, npoll, backups>>
    /\ UNCHANGED <<lrovars, npollsleep, legvars, convars, miscvars>>

\* one pass of  while i < len(sortedbackups)  up to the call
\* self.deleteBackupbyBackupID(region, backupToDelete["backupId"]),
\* or  return True  when the loop is over
RotPrune ==
    /\ rot_pc = "prune"
    /\ IF i < Len(sortedbackups)
       THEN /\ backupToDelete' = sortedbackups[i + 1]
            /\ IF HasMethod("deleteBackupbyBackupID")
               THEN /\ EnterExecutor("DELETE", UrlBackup(sortedbackups[i + 1].backupId),
                                     10 * 60, "deleteBackup")
                    /\ rot_pc' = "delete"
                    /\ UNCHANGED <<op_out, op_result>>
               ELSE RotRaise("AttributeError") /\ UNCHANGED exvars
       ELSE RotReturn("True") /\ UNCHANGED <<exvars, backupToDelete>>
    /\ UNCHANGED <<now, op, count, backupname, backupID, sortedbackups, i,
                   first_listing, post_ok, polled_available, npoll, backups, net>>
    /\ UNCHANGED lrovars
    /\ UNCHANGED <<pollvars, legvars, convars, miscvars>>

\* a caller invokes deleteBackupByBackupID(region, backupID) up to the call
\* of _do_api_delete(url, 10*60)
CallDeleteBackupByBackupID ==
    /\ op = "none"
    /\ op' = "deleteBackupByBackupID"
    /\ \E b \in backups :
        /\ backupID' = b.backupId
        /\ EnterExecutor("DELETE", UrlBackup(b.backupId), 10 * 60, "deleteBackup")
    /\ UNCHANGED <<now, op_out, op_result, rot_pc, count, backupname, sortedbackups, i,
                   backupToDelete, first_listing, post_ok, polled_available, npoll,
                   backups, net>>
    /\ UNCHANGED lrovars
    /\ UNCHANGED <<pollvars, legvars, convars, miscvars>>

\* deleteBackupByBackupID after _do_api_delete: raise_for_status(), then
\* return True / False; in rotateBackup the result is dropped and  i = i + 1
DeleteBackupAfterDelete ==
    /\ ex_pc = "exit" /\ ex_caller = "deleteBackup"
    /\ LeaveExecutor
    /\ IF op = "rotateBackup"
       THEN IF RaisesForStatus(r.status)
            THEN RotRaise("HTTPError") /\ UNCHANGED i
            ELSE /\ i' = i + 1
                 /\ rot_pc' = "prune"
                 /\ UNCHANGED <<op_out, op_result>>
       ELSE /\ op_out' = IF RaisesForStatus(r.status) THEN "raised" ELSE "returned"
            /\ op_result' = IF RaisesForStatus(r.status) THEN "HTTPError"
                            ELSE IF DeleteSucceeded(r.status) THEN "True" ELSE "False"
            /\ UNCHANGED <<rot_pc, i>>
    /\ UNCHANGED <<now, op, count, backupname, backupID, sortedbackups, backupToDelete,
                   first_listing, post_ok, polled_available, npoll, backups, net>>
    /\ UNCHANGED lrovars
    /\ UNCHANGED <<pollvars, legvars, convars, miscvars>>

NextRot ==
    \/ CallRotateBackup \/ RotList1 \/ RotGetVolume \/ CreateBackupAfterPost
    \/ BackupPollSleep \/ BackupPoll \/ RotList2 \/ RotPrune
    \/ CallDeleteBackupByBackupID \/ DeleteBackupAfterDelete
    \/ ExRequest \/ ExSleep
SpecRot == Init /\ [][NextRot]_vars

(***************************************************************************)
(* createVolume, createPool, createBackup as a method of its own, and      *)
(* breakVolumeReplicationByID.  createVolume and createPool have the same  *)
(* body (the pool's state field is 'state', the volume's 'lifeCycleState') *)
(* and share the actions after the call.                                   *)
(***************************************************************************)
CreateDefaultTimeout == 15 * 60
\* timeout of createVolume / createPool: the default, and 0 for no retries
CreateTimeouts     == {0, CreateDefaultTimeout}
CreatePollInterval == 20
BreakPollInterval  == 15
BreakWindow        == 5 * 60

UrlCreate(resource) == [kind |-> resource, id |-> 0]
UrlResource(resource) == [kind |-> resource, id |-> 1]
UrlBreak == [kind |-> "VolumeReplicationsBreak", id |-> 1]
\* the resource the polls of createVolume / createPool fetch
CreatedResource == IF op = "createPool" THEN "Pools" ELSE "Volumes"

\* variant of StateNotCreating: only 'available' ends the poll
StateAvailable(state) == state = "available"

\* variant of StateNotCreating: every fetched state ends the poll
StateAny(state) == TRUE

\* if state != "creating": break
StateNotCreating(state) == state # "creating"

\* variant of BreakWindowExceeded: the poll goes on for one more interval
BreakWindowExceededLate(t, started) == t > started + BreakWindow + BreakPollInterval

\* variant of BreakWindowExceeded: the poll gives up one interval early
BreakWindowExceededEarly(t, started) == t + BreakPollInterval > started + BreakWindow

\* if time() > start + 5*60: raise TimeoutError(...)
BreakWindowExceeded(t, started) == t > started + BreakWindow

\* an exception escapes createVolume / createPool / breakVolumeReplicationByID
LroRaise(exception) ==
    /\ lro_pc' = "raised"
    /\ op_out' = "raised"
    /\ op_result' = exception

\* the method returns; a returned resource is stood for by its state
LroReturn(value) ==
    /\ lro_pc' = "done"
    /\ op_out' = "returned"
    /\ op_result' = value

\* createVolume(region, payload, timeout) up to the call of _do_api_post
CallCreateVolume ==
    /\ op = "none"
    /\ op' = "createVolume"
    /\ \E ts \in CreateTimeouts, isDataProtection \in BOOLEAN :
        EnterExecutor("POST",
                      IF isDataProtection THEN UrlCreate("DataProtectionVolumes")
                      ELSE UrlCreate("Volumes"),
                      ts, "createVolume")
    /\ lro_pc' = "post"
    /\ UNCHANGED <<now, op_out, op_result, rotvars, start, fetched, backups, net>>
    /\ UNCHANGED <<pollvars, legvars, convars, miscvars>>

\* createPool(region, payload, timeout) up to the call of _do_api_post
CallCreatePool ==
    /\ op = "none"
    /\ op' = "createPool"
    /\ \E ts \in CreateTimeouts :
        EnterExecutor("POST", UrlCreate("Pools"), ts, "createPool")
    /\ lro_pc' = "post"
    /\ UNCHANGED <<now, op_out, op_result, rotvars, start, fetched, backups, net>>
    /\ UNCHANGED <<pollvars, legvars, convars, miscvars>>

\* createVolume / createPool after _do_api_post:  if r.status_code == 200: ...
\* if r.status_code == 202: ...  else "reached unexpected code path", return {}
CreateAfterPost ==
    /\ ex_pc = "exit" /\ ex_caller \in {"createVolume", "createPool"}
    /\ LeaveExecutor
    /\ IF RaisesForStatus(r.status) THEN LroRaise("HTTPError")
       ELSE IF r.status = 200 THEN lro_pc' = "get" /\ UNCHANGED <<op_out, op_result>>
       ELSE IF r.status = 202
       THEN lro_pc' = PollLoopTop /\ UNCHANGED <<op_out, op_result>>
       ELSE LroReturn("{}")
    /\ UNCHANGED <<now, op, rotvars, start, fetched, backups, net>>
    /\ UNCHANGED <<pollvars, legvars, convars, miscvars>>

\* the 200 branch: r = self._do_api_get(...); return r.json()
CreateGet ==
    /\ lro_pc = "get"
    /\ net' = Append(net, [m |-> "GET", url |-> UrlResource(CreatedResource)])
    /\ \E status \in GetStatuses, state \in LifeCycleStates :
        /\ get_status' = status
        /\ IF RaisesForStatus(status) THEN LroRaise("HTTPError") ELSE LroReturn(state)
    /\ UNCHANGED <<now, op, exvars, rotvars, start, fetched, backups>>
    /\ UNCHANGED <<npollsleep, legvars, convars, miscvars>>

\* the first statement of a pass of the poll of the 202 branch: sleep(20)
CreatePollSleep ==
    /\ lro_pc = "poll" /\ op \in {"createVolume", "createPool"}
    /\ npollsleep < MaxPolls
    /\ now' = now + CreatePollInterval
    /\ npollsleep' = npollsleep + 1
    /\ lro_pc' = "fetch"
    /\ UNCHANGED <<opvars, exvars, rotvars, start, fetched, get_status, legvars, convars,
                   miscvars, backups, net>>

\* r = self._do_api_get(...); state = r.json()['lifeCycleState'];
\* if state != "creating": break  -- and then return r.json()
CreatePoll ==
    /\ lro_pc = "fetch" /\ op \in {"createVolume", "createPool"}
    /\ npoll' = npoll + 1
    /\ net' = Append(net, [m |-> "GET", url |-> UrlResource(CreatedResource)])
    /\ \E status \in GetStatuses, state \in LifeCycleStates :
        /\ get_status' = status
        /\ IF RaisesForStatus(status)
           THEN LroRaise("HTTPError") /\ UNCHANGED fetched
           ELSE /\ fetched' = Append(fetched, state)
                /\ IF StateNotCreating(state)
                   THEN LroReturn(state)
                   ELSE lro_pc' = PollLoopTop /\ UNCHANGED <<op_out, op_result>>
    /\ UNCHANGED <<now, op, exvars, rot_pc, count, backupname, backupID, sortedbackups,
                   i, backupToDelete, first_listing, post_ok, polled_available, start,
                   backups>>
    /\ UNCHANGED <<npollsleep, legvars, convars, miscvars>>

\* a caller invokes createBackup(region, volumeID, name) up to the call of
\* _do_api_post(url, body, 10*60)
CallCreateBackup ==
    /\ op = "none"
    /\ op' = "createBackup"
    /\ backupname' = ManualPlain(1).name
    /\ EnterExecutor("POST", UrlBackups, 10 * 60, "createBackup")
    /\ rot_pc' = "create"
    /\ UNCHANGED <<now, op_out, op_result, count, backupID, sortedbackups, i,
                   backupToDelete, first_listing, post_ok, polled_available, npoll,
                   lrovars, backups, net>>
    /\ UNCHANGED <<pollvars, legvars, convars, miscvars>>

\* breakVolumeReplicationByID(destination_region, relationshipID, force) up to
\* the call of _do_api_post(url, payload)
CallBreakVolumeReplicationByID ==
    /\ op = "none"
    /\ op' = "breakVolumeReplicationByID"
    /\ EnterExecutor("POST", UrlBreak, PostDefaultTimeout, "breakVolumeReplicationByID")
    /\ lro_pc' = "post"
    /\ UNCHANGED <<now, op_out, op_result, rotvars, start, fetched, backups, net>>
    /\ UNCHANGED <<pollvars, legvars, convars, miscvars>>

\* breakVolumeReplicationByID after _do_api_post:  start = time()
BreakAfterPost ==
    /\ ex_pc = "exit" /\ ex_caller = "breakVolumeReplicationByID"
    /\ LeaveExecutor
    /\ IF RaisesForStatus(r.status)
       THEN LroRaise("HTTPError") /\ UNCHANGED start
       ELSE start' = now /\ lro_pc' = PollLoopTop /\ UNCHANGED <<op_out, op_result>>
    /\ UNCHANGED <<now, op, rotvars, fetched, backups, net>>
    /\ UNCHANGED <<pollvars, legvars, convars, miscvars>>

\* the first statement of a pass of its poll: sleep(15)
BreakPollSleep ==
    /\ lro_pc = "poll" /\ op = "breakVolumeReplicationByID"
    /\ now' = now + BreakPollInterval
    /\ npollsleep' = npollsleep + 1
    /\ lro_pc' = "fetch"
    /\ UNCHANGED <<opvars, exvars, rotvars, start, fetched, get_status, legvars, convars,
                   miscvars, backups, net>>

\* variant of BreakPoll: the window is tested before the fetched state is
\* looked at
BreakPollDeadlineFirst ==
    /\ lro_pc = "fetch" /\ op = "breakVolumeReplicationByID"
    /\ npoll' = npoll + 1
    /\ net' = Append(net, [m |-> "GET", url |-> UrlResource("VolumeReplications")])
    /\ \E lat \in Latencies, status \in GetStatuses, state \in LifeCycleStates :
        /\ now' = now + lat
        /\ get_status' = status
        /\ IF RaisesForStatus(status)
           THEN LroRaise("HTTPError") /\ UNCHANGED fetched
           ELSE /\ fetched' = Append(fetched, state)
                /\ IF BreakWindowExceeded(now + lat, start)
                   THEN LroRaise("TimeoutError")
                   ELSE IF state = "available" THEN LroReturn("available")
                   ELSE IF state = "error" THEN LroRaise("RuntimeError")
                   ELSE lro_pc' = PollLoopTop /\ UNCHANGED <<op_out, op_result>>
    /\ UNCHANGED <<op, exvars, rot_pc, count, backupname, backupID, sortedbackups, i,
                   backupToDelete, first_listing, post_ok, polled_available, start,
                   backups>>
    /\ UNCHANGED <<npollsleep, legvars, convars, miscvars>>

\* res = self._do_api_get(...); 'available' breaks and returns, 'error' raises
\* RuntimeError(lifeCycleStateDetails), and otherwise
\* if time() > start + 5*60: raise TimeoutError(...)
BreakPoll ==
    /\ lro_pc = "fetch" /\ op = "breakVolumeReplicationByID"
    /\ npoll' = npoll + 1
    /\ net' = Append(net, [m |-> "GET", url |-> UrlResource("VolumeReplications")])
    /\ \E lat \in Latencies, status \in GetStatuses, state \in LifeCycleStates :
        /\ now' = now + lat
        /\ get_status' = status
        /\ IF RaisesForStatus(status)
           THEN LroRaise("HTTPError") /\ UNCHANGED fetched
           ELSE /\ fetched' = Append(fetched, state)
                /\ IF state = "available" THEN LroReturn("available")
                   ELSE IF state = "error" THEN LroRaise("RuntimeError")
                   ELSE IF BreakWindowExceeded(now + lat, start)
                   THEN LroRaise("TimeoutError")
                   ELSE lro_pc' = PollLoopTop /\ UNCHANGED <<op_out, op_result>>
    /\ UNCHANGED <<op, exvars, rot_pc, count, backupname, backupID, sortedbackups, i,
                   backupToDelete, first_listing, post_ok, polled_available, start,
                   backups>>
    /\ UNCHANGED <<npollsleep, legvars, convars, miscvars>>

NextLro ==
    \/ CallCreateVolume \/ CallCreatePool \/ CreateAfterPost \/ CreateGet
    \/ CreatePollSleep \/ CreatePoll
    \/ CallCreateBackup \/ CreateBackupAfterPost \/ BackupPollSleep \/ BackupPoll
    \/ CallBreakVolumeReplicationByID \/ BreakAfterPost \/ BreakPollSleep \/ BreakPoll
    \/ ExRequest \/ ExSleep
SpecLro == InitExec /\ [][NextLro]_vars

(***************************************************************************)
(* The service level translators, setServiceLevelByVolumeID,               *)
(* createVolumeReplication and createReverseVolumeReplicationByID.  The    *)
(* service level names are whole strings; Python's None is "None".  The    *)
(* legacy class (src/GCPCVS.py, lines 266-308) has the same two tables.    *)
(***************************************************************************)
\* variant of serviceLevelsUI: every name is kept
serviceLevelsUISameNames ==
    ("standard" :> "standard") @@ ("premium" :> "premium")
    @@ ("extreme" :> "extreme") @@ ("standard-sw" :> "standard-sw")

serviceLevelsAPI ==
    ("basic" :> "standard") @@ ("standard" :> "premium")
    @@ ("extreme" :> "extreme") @@ ("standard-sw" :> "standard-sw")

serviceLevelsUI ==
    ("standard" :> "basic") @@ ("premium" :> "standard")
    @@ ("extreme" :> "extreme") @@ ("standard-sw" :> "standard-sw")

translateServiceLevelAPI2UI(serviceLevel) ==
    IF serviceLevel \in DOMAIN serviceLevelsAPI
    THEN serviceLevelsAPI[serviceLevel]
    ELSE "None"

translateServiceLevelUI2API(serviceLevel) ==
    IF serviceLevel \in DOMAIN serviceLevelsUI
    THEN serviceLevelsUI[serviceLevel]
    ELSE "None"

Translators == {"translateServiceLevelAPI2UI", "translateServiceLevelUI2API"}
\* the service levels a caller passes: the names of both tables and two
\* names of neither
ServiceLevelInputs ==
    DOMAIN serviceLevelsAPI \cup DOMAIN serviceLevelsUI \cup {"gold", ""}

Translate(translator, serviceLevel) ==
    IF translator = "translateServiceLevelAPI2UI"
    THEN translateServiceLevelAPI2UI(serviceLevel)
    ELSE translateServiceLevelUI2API(serviceLevel)
OtherTranslator(translator) ==
    IF translator = "translateServiceLevelAPI2UI"
    THEN "translateServiceLevelUI2API"
    ELSE "translateServiceLevelAPI2UI"

\* a caller invokes one of the translators
CallTranslate ==
    /\ op = "none"
    /\ \E translator \in Translators, serviceLevel \in ServiceLevelInputs :
        /\ op' = translator
        /\ args' = [serviceLevel |-> serviceLevel]
        /\ translated' = <<Translate(translator, serviceLevel)>>
        /\ op_out' = "returned"
        /\ op_result' = Translate(translator, serviceLevel)
    /\ UNCHANGED <<now, exvars, rotvars, lrovars, pollvars, legvars, convars, sent_payload,
                   backups, net>>

\* the caller passes the result to the translator of the other direction
TranslateBack ==
    /\ op \in Translators /\ Len(translated) = 1
    /\ translated' = Append(translated, Translate(OtherTranslator(op), translated[1]))
    /\ op_result' = Translate(OtherTranslator(op), translated[1])
    /\ UNCHANGED <<now, op, op_out, exvars, rotvars, lrovars, pollvars, legvars, convars, args,
                   sent_payload, backups, net>>

\* setServiceLevelByVolumeID(region, volumeID, serviceLevel): the translation,
\* the PUT of _modifyVolumeByVolumeID and its raise_for_status(); the method
\* has no return statement
CallSetServiceLevelByVolumeID ==
    /\ op = "none"
    /\ op' = "setServiceLevelByVolumeID"
    /\ \E serviceLevel \in ServiceLevelInputs, status \in Statuses, lat \in Latencies :
        /\ args' = [serviceLevel |-> serviceLevel]
        /\ translated' = <<translateServiceLevelUI2API(serviceLevel)>>
        /\ sent_payload' = [serviceLevel |-> translateServiceLevelUI2API(serviceLevel)]
        /\ net' = Append(net, [m |-> "PUT", url |-> UrlResource("Volumes")])
        /\ now' = now + lat
        /\ op_out' = IF RaisesForStatus(status) THEN "raised" ELSE "returned"
        /\ op_result' = IF RaisesForStatus(status) THEN "HTTPError" ELSE "None"
    /\ UNCHANGED <<exvars, rotvars, lrovars, pollvars, legvars, convars, backups>>

ValidSchedules == {"10minutely", "hourly", "daily"}
Schedules      == ValidSchedules \cup {"weekly", ""}

\* createVolumeReplication(relationship_name, source_volume, destination_volume,
\* schedule) up to the call of _do_api_post(url, payload)
CallCreateVolumeReplication ==
    /\ op = "none"
    /\ op' = "createVolumeReplication"
    /\ \E schedule \in Schedules, isDataProtection \in BOOLEAN, inReplication \in BOOLEAN :
        /\ args' = [schedule |-> schedule, isDataProtection |-> isDataProtection,
                    inReplication |-> inReplication]
        /\ IF isDataProtection = FALSE
           THEN LroRaise("ValueError") /\ UNCHANGED exvars
           ELSE IF inReplication = TRUE
           THEN LroReturn("None") /\ UNCHANGED exvars
           ELSE IF schedule \notin ValidSchedules
           THEN LroRaise("ValueError") /\ UNCHANGED exvars
           ELSE /\ EnterExecutor("POST", UrlCreate("VolumeReplications"),
                                 PostDefaultTimeout, "createVolumeReplication")
                /\ lro_pc' = "post"
                /\ UNCHANGED <<op_out, op_result>>
    /\ UNCHANGED <<now, rotvars, start, fetched, pollvars, legvars, convars, translated,
                   sent_payload, backups, net>>

\* variant of ReverseAllowed: only the mirror state is looked at
ReverseAllowedIfBroken(mirrorState, relationshipStatus) == mirrorState = "broken"

\* neither  relationship['mirrorState'] != 'broken'  nor
\* relationship['relationshipStatus'] != 'idle'
ReverseAllowed(mirrorState, relationshipStatus) ==
    mirrorState = "broken" /\ relationshipStatus = "idle"

MirrorStates         == {"broken", "mirrored", "uninitialized"}
RelationshipStatuses == {"idle", "transferring"}

\* createReverseVolumeReplicationByID(relationship_region, relationshipID): the
\* GET of getVolumeReplicationByID, the two tests, up to the call of
\* _do_api_post(url, payload)
CallCreateReverseVolumeReplicationByID ==
    /\ op = "none"
    /\ op' = "createReverseVolumeReplicationByID"
    /\ net' = Append(net, [m |-> "GET", url |-> UrlResource("VolumeReplications")])
    /\ \E status \in GetStatuses, lat \in Latencies,
          mirrorState \in MirrorStates, relationshipStatus \in RelationshipStatuses :
        /\ now' = now + lat
        /\ get_status' = status
        /\ IF RaisesForStatus(status)
           THEN LroRaise("HTTPError") /\ UNCHANGED <<exvars, args>>
           ELSE /\ args' = [mirrorState |-> mirrorState,
                           relationshipStatus |-> relationshipStatus]
                /\ IF ReverseAllowed(mirrorState, relationshipStatus)
                   THEN /\ EnterExecutorAt("POST", UrlCreate("VolumeReplications"),
                                           PostDefaultTimeout,
                                           "createReverseVolumeReplicationByID", now + lat)
                        /\ lro_pc' = "post"
                        /\ UNCHANGED <<op_out, op_result>>
                   ELSE LroRaise("ValueError") /\ UNCHANGED exvars
    /\ UNCHANGED <<rotvars, start, fetched, npollsleep, legvars, convars, translated,
                   sent_payload, backups>>

\* both methods after _do_api_post:  return r  /  return reverse_relationship.json()
ReplicationAfterPost ==
    /\ ex_pc = "exit"
    /\ ex_caller \in {"createVolumeReplication", "createReverseVolumeReplicationByID"}
    /\ LeaveExecutor
    /\ IF RaisesForStatus(r.status) THEN LroRaise("HTTPError") ELSE LroReturn("response")
    /\ UNCHANGED <<now, op, rotvars, start, fetched, pollvars, legvars, convars, miscvars,
                   backups, net>>

NextSvc ==
    \/ CallTranslate \/ TranslateBack \/ CallSetServiceLevelByVolumeID
    \/ CallCreateVolumeReplication \/ CallCreateReverseVolumeReplicationByID
    \/ ReplicationAfterPost
    \/ ExRequest \/ ExSleep
SpecSvc == InitExec /\ [][NextSvc]_vars

(***************************************************************************)
(* The legacy class GCPCVS (GCPCVS.py): createVolume and                   *)
(* deleteVolumeByVolumeID carry their own retry loop, counted in retries.  *)
(***************************************************************************)
LegacyDefaultTimeout == 10     \* createVolume(..., timeout: int = 10)
LegacyDeleteRetries  == 10     \* deleteVolumeByVolumeID: retries = 10
LegacySleepSeconds   == 60     \* sleep(60)
\* the values of the argument timeout: none, one, a few and the default
LegacyTimeouts == {0, 1, 3, LegacyDefaultTimeout}

MsgDeleteQueueFull == <<"Error", "deleting", "volume", "-">> \o JobPhrase
\* a message that has the text of MsgQueueFull, but not at its start
MsgQueueFullLater  == <<"Volumes:">> \o MsgQueueFull
LegacyResponses ==
    Responses \cup {[status |-> 500, reason |-> BodyWith(m)] :
                        m \in {MsgDeleteQueueFull, MsgQueueFullLater}}

LegacyCreate == "GCPCVS.createVolume"
LegacyDelete == "GCPCVS.deleteVolumeByVolumeID"
LegacyMethod(operation) == IF operation = LegacyCreate THEN "POST" ELSE "DELETE"
LegacyUrl(operation) ==
    IF operation = LegacyCreate THEN UrlCreate("Volumes") ELSE UrlResource("Volumes")
\* the text the message of a 500 is compared with
LegacyPrefix(operation) ==
    IF operation = LegacyCreate THEN MsgQueueFull ELSE MsgDeleteQueueFull

\* str.startswith
startswith(text, prefix) ==
    /\ Len(text) >= Len(prefix)
    /\ SubSeq(text, 1, Len(prefix)) = prefix

\* variant of LegacyRetries: 429 and 409 are retried as well, and a 500
\* whatever its message
LegacyRetriesBusy(resp, prefix) == resp.status \in {429, 409, 500}

\* the branch of the loop body that sleeps and goes on:
\* if r.status_code == 500: ... if 'message' in reason:
\*     if reason['message'].startswith("Error ... - Cannot spawn additional jobs")
LegacyRetries(resp, prefix) ==
    /\ resp.status = 500
    /\ "message" \in DOMAIN resp.reason
    /\ startswith(resp.reason.message, prefix)

\* while retries > 0
LegacyLoopTest(n) == IF n > 0 THEN "request" ELSE "after"

LegRaise(exception) ==
    /\ lg_pc' = "raised"
    /\ op_out' = "raised"
    /\ op_result' = exception

LegReturn(value) ==
    /\ lg_pc' = "done"
    /\ op_out' = "returned"
    /\ op_result' = value

\* the executor frame but for r, the local the legacy methods have too
exframe == <<ex_pc, ex_method, ex_url, ex_caller, timeout_seconds, target_time,
             nreq, nsleep, last_sleep, log>>

\* GCPCVS.createVolume(region, payload, timeout):  retries = timeout
CallLegacyCreateVolume ==
    /\ op = "none"
    /\ op' = LegacyCreate
    /\ \E timeout \in LegacyTimeouts :
        /\ args' = [timeout |-> timeout]
        /\ retries' = timeout
        /\ lg_pc' = LegacyLoopTest(timeout)
    /\ UNCHANGED <<now, op_out, op_result, exvars, rotvars, lrovars, pollvars,
                   convars, translated, sent_payload, backups, net>>

\* GCPCVS.deleteVolumeByVolumeID(region, volumeID):  retries = 10
CallLegacyDeleteVolumeByVolumeID ==
    /\ op = "none"
    /\ op' = LegacyDelete
    /\ retries' = LegacyDeleteRetries
    /\ lg_pc' = LegacyLoopTest(LegacyDeleteRetries)
    /\ UNCHANGED <<now, op_out, op_result, exvars, rotvars, lrovars, pollvars,
                   convars, miscvars, backups, net>>

\* r = requests.post(...) / requests.delete(...) and the tests on its status
LegacyRequest ==
    /\ lg_pc = "request"
    /\ \E resp \in LegacyResponses, lat \in Latencies :
        /\ now' = now + lat
        /\ net' = Append(net, [m |-> LegacyMethod(op), url |-> LegacyUrl(op)])
        /\ r' = resp
        /\ lg_pc' = IF LegacyRetries(resp, LegacyPrefix(op)) THEN "sleep" ELSE "after"
    /\ UNCHANGED <<opvars, exframe, rotvars, lrovars, pollvars, retries, convars, miscvars,
                   backups>>

\* sleep(60); retries = retries - 1; and the test of the loop
LegacySleep ==
    /\ lg_pc = "sleep"
    /\ now' = now + LegacySleepSeconds
    /\ retries' = retries - 1
    /\ lg_pc' = LegacyLoopTest(retries - 1)
    /\ UNCHANGED <<opvars, exvars, rotvars, lrovars, pollvars, convars, miscvars,
                   backups, net>>

\* after the loop: r.raise_for_status() -- r is unbound when the loop body
\* never ran -- then  return r.json()  in deleteVolumeByVolumeID and the
\* branches on 200 and 202 in createVolume
LegacyAfterLoop ==
    /\ lg_pc = "after"
    /\ IF r = NoResponse THEN LegRaise("UnboundLocalError")
       ELSE IF RaisesForStatus(r.status) THEN LegRaise("HTTPError")
       ELSE IF op = LegacyDelete THEN LegReturn("response")
       ELSE IF r.status = 200 THEN lg_pc' = "get" /\ UNCHANGED <<op_out, op_result>>
       ELSE IF r.status = 202 THEN lg_pc' = "poll" /\ UNCHANGED <<op_out, op_result>>
       ELSE LegReturn("{}")
    /\ UNCHANGED <<now, op, exvars, rotvars, lrovars, pollvars, retries, convars, miscvars,
                   backups, net>>

\* the 200 branch of createVolume: r = self._do_api_get(...); return r.json()
LegacyGet ==
    /\ lg_pc = "get"
    /\ net' = Append(net, [m |-> "GET", url |-> UrlResource("Volumes")])
    /\ \E status \in GetStatuses, state \in LifeCycleStates :
        /\ get_status' = status
        /\ IF RaisesForStatus(status) THEN LegRaise("HTTPError") ELSE LegReturn(state)
    /\ UNCHANGED <<now, op, exvars, rotvars, lrovars, npollsleep, retries, convars, miscvars,
                   backups>>

\* the 202 branch of createVolume:  while True: sleep(20)
LegacyPollSleep ==
    /\ lg_pc = "poll"
    /\ npollsleep < MaxPolls
    /\ now' = now + CreatePollInterval
    /\ npollsleep' = npollsleep + 1
    /\ lg_pc' = "fetch"
    /\ UNCHANGED <<opvars, exvars, rotvars, lrovars, get_status, retries, convars, miscvars,
                   backups, net>>

\* r = self._do_api_get(...); state = r.json()['lifeCycleState'];
\* if state != "creating": break  -- and then return r.json()
LegacyPoll ==
    /\ lg_pc = "fetch"
    /\ npoll' = npoll + 1
    /\ net' = Append(net, [m |-> "GET", url |-> UrlResource("Volumes")])
    /\ \E status \in GetStatuses, state \in LifeCycleStates :
        /\ get_status' = status
        /\ IF RaisesForStatus(status)
           THEN LegRaise("HTTPError") /\ UNCHANGED fetched
           ELSE /\ fetched' = Append(fetched, state)
                /\ IF StateNotCreating(state)
                   THEN LegReturn(state)
                   ELSE lg_pc' = "poll" /\ UNCHANGED <<op_out, op_result>>
    /\ UNCHANGED <<now, op, exvars, rot_pc, count, backupname, backupID, sortedbackups,
                   i, backupToDelete, first_listing, post_ok, polled_available,
                   lro_pc, start, npollsleep, retries, convars, miscvars, backups>>

NextLegacy ==
    \/ CallLegacyCreateVolume \/ CallLegacyDeleteVolumeByVolumeID
    \/ LegacyRequest \/ LegacySleep \/ LegacyAfterLoop
    \/ LegacyGet \/ LegacyPollSleep \/ LegacyPoll
SpecLegacy == InitExec /\ [][NextLegacy]_vars

(***************************************************************************)
(* rotateBackup called again and again by one caller, each call after the  *)
(* one before has ended, with the same count.  The calls are made by a     *)
(* schedule, one every RepeatPeriod seconds, and the service has a job     *)
(* slot free whenever it is asked: it answers no 429, 409 or 500 (those    *)
(* would only put the request off).                                        *)
(***************************************************************************)
RepeatPeriod == 60
\* one backup short of the maximum
FxAlmostFull == {GeneratedBackup(k) : k \in 1..(max_backups - 1)}
InitSeq == InitFrames /\ backups \in (Fixtures \cup {FxAlmostFull})

\* a request of the executor that the service does not put off
ExRequestNotBusy == ExRequest /\ r'.status \notin BusyStatuses

\* the call has ended; at the next instant of the schedule the caller calls
\* rotateBackup(region, volumeID, count) once more: the locals are fresh, the
\* service is as the call before left it.  The wire log starts anew.
RotateAgain ==
    /\ op = "rotateBackup" /\ op_out # "running"
    /\ nrepeat < MaxRepeats
    /\ now <= StartTime + (nrepeat + 1) * RepeatPeriod
    /\ now' = StartTime + (nrepeat + 1) * RepeatPeriod
    /\ net' = <<>>
    /\ nrepeat' = nrepeat + 1
    /\ IF RetentionValid(count)
       THEN rot_pc' = "list1" /\ op_out' = "running" /\ op_result' = "None"
       ELSE RotReturn("False")
    /\ ex_pc' = "off" /\ ex_method' = "POST" /\ ex_url' = UrlOther /\ ex_caller' = "direct"
    /\ timeout_seconds' = 0 /\ target_time' = 0 /\ r' = NoResponse
    /\ nreq' = 0 /\ nsleep' = 0 /\ last_sleep' = 0 /\ log' = <<>>
    /\ backupname' = <<>> /\ backupID' = 0
    /\ sortedbackups' = <<>> /\ i' = 0 /\ backupToDelete' = NoBackup
    /\ first_listing' = 0 /\ post_ok' = FALSE /\ polled_available' = FALSE
    /\ npoll' = 0 /\ npollsleep' = 0 /\ get_status' = 0 /\ fetched' = <<>>
    /\ UNCHANGED <<op, count, lro_pc, start, legvars, o_pc, o_backupID, o_sortedbackups,
                   o_i, o_backupToDelete, miscvars, backups>>

NextSeq ==
    \/ CallRotateBackup \/ RotList1 \/ RotGetVolume \/ CreateBackupAfterPost
    \/ BackupPollSleep \/ BackupPoll \/ RotList2 \/ RotPrune
    \/ ExRequestNotBusy
    \/ RotateAgain
SpecSeq == InitSeq /\ [][NextSeq]_vars

(***************************************************************************)
(* A second call of rotateBackup for the same volume and with the same     *)
(* count, made by another instance while the first call runs.  It has its  *)
(* own locals (o_...); the two share the service and the clock only.  Its  *)
(* steps are those of rotateBackup that read or change the service: the    *)
(* first listing, createBackup as a whole, the second listing and the      *)
(* pruning loop.  net stays the wire of the first call.                    *)
(***************************************************************************)
\* how createBackup of the second call ends: with the backup available, with
\* the backup made but False returned (POST answered 200), or with an error
CreateOutcomes == {"available", "refused", "failed"}

\* rotateBackup(region, volumeID, count): the check of count
OtherCall ==
    /\ op = "rotateBackup" /\ o_pc = "off"
    /\ o_pc' = IF RetentionValid(count) THEN "list1" ELSE "done"
    /\ UNCHANGED <<now, opvars, exvars, rotvars, lrovars, pollvars, legvars, nrepeat,
                   o_backupID, o_sortedbackups, o_i, o_backupToDelete, miscvars,
                   backups, net>>

\* backups = self.getBackupsByVolumeID(...); if len(backups) == max_backups: return False
OtherList1 ==
    /\ o_pc = "list1"
    /\ \E status \in GetStatuses :
        o_pc' = IF RaisesForStatus(status) THEN "raised"
                ELSE IF QuotaReached(Cardinality(backups)) THEN "done"
                ELSE "create"
    /\ UNCHANGED <<now, opvars, exvars, rotvars, lrovars, pollvars, legvars, nrepeat,
                   o_backupID, o_sortedbackups, o_i, o_backupToDelete, miscvars,
                   backups, net>>

\* backupname = f"{volumename}-{volumehash}-{now}";
\* if not self.createBackup(region, volumeID, backupname): return False
\* -- the POST and one pass of the poll
OtherCreate ==
    /\ o_pc = "create"
    /\ \E outcome \in CreateOutcomes :
        IF outcome = "failed"
        THEN /\ o_pc' = "raised"
             /\ UNCHANGED <<now, o_backupID, backups>>
        ELSE /\ backups' = backups \cup
                     {Backup(NewBackupId, BackupName(VolumeName, VolumeID, now), now)}
             /\ o_backupID' = NewBackupId
             /\ IF outcome = "available"
                THEN o_pc' = "list2" /\ now' = now + PollInterval
                ELSE o_pc' = "done" /\ now' = now
    /\ UNCHANGED <<opvars, exvars, rotvars, lrovars, pollvars, legvars, nrepeat,
                   o_sortedbackups, o_i, o_backupToDelete, miscvars, net>>

\* the second listing, the filter, the sort and  i = count
OtherList2 ==
    /\ o_pc = "list2"
    /\ \E status \in GetStatuses :
        IF RaisesForStatus(status)
        THEN o_pc' = "raised" /\ UNCHANGED <<o_sortedbackups, o_i>>
        ELSE /\ o_sortedbackups' = SortedDescending(MatchingBackups(backups, VolumeName))
             /\ o_i' = count
             /\ o_pc' = "prune"
    /\ UNCHANGED <<now, opvars, exvars, rotvars, lrovars, pollvars, legvars, nrepeat,
                   o_backupID, o_backupToDelete, miscvars, backups, net>>

\* one pass of  while i < len(sortedbackups)  with the call
\* self.deleteBackupbyBackupID(region, backupToDelete["backupId"]),
\* or  return True  when the loop is over
OtherPrune ==
    /\ o_pc = "prune"
    /\ IF o_i < Len(o_sortedbackups)
       THEN /\ o_backupToDelete' = o_sortedbackups[o_i + 1]
            /\ IF HasMethod("deleteBackupbyBackupID")
               THEN /\ backups' = {b \in backups :
                                       b.backupId # o_sortedbackups[o_i + 1].backupId}
                    /\ o_i' = o_i + 1
                    /\ o_pc' = "prune"
               ELSE o_pc' = "raised" /\ UNCHANGED <<o_i, backups>>
       ELSE o_pc' = "done" /\ UNCHANGED <<o_i, o_backupToDelete, backups>>
    /\ UNCHANGED <<now, opvars, exvars, rotvars, lrovars, pollvars, legvars, nrepeat,
                   o_backupID, o_sortedbackups, miscvars, net>>

NextCon ==
    \/ CallRotateBackup \/ RotList1 \/ RotGetVolume \/ CreateBackupAfterPost
    \/ BackupPollSleep \/ BackupPoll \/ RotList2 \/ RotPrune
    \/ ExRequestNotBusy
    \/ OtherCall \/ OtherList1 \/ OtherCreate \/ OtherList2 \/ OtherPrune
SpecCon == Init /\ [][NextCon]_vars

Next == NextExec \/ NextRot \/ NextLro \/ NextSvc \/ NextLegacy \/ NextSeq \/ NextCon
Spec == Init /\ [][Next]_vars


(***************************************************************************)
(* Properties.                                                             *)
(***************************************************************************)
\* positions in the wire log of the requests of method m
Sent(m) == {k \in 1..Len(net) : net[k].m = m}
\* the backups a DELETE request was sent for
DeleteRequested == {net[k].url.id : k \in Sent("DELETE")}
\* the backups beyond index count of the sorted matching list
Excess == {sortedbackups[k].backupId : k \in (count + 1)..Len(sortedbackups)}
\* the rotation got as far as its pruning step
PruningReached ==
    \/ rot_pc \in {"prune", "delete"}
    \/ sortedbackups # <<>>
    \/ backupToDelete # NoBackup
InRotation == op = "rotateBackup"
RotationEnded == InRotation /\ op_out # "running"

\* C1: in rotateBackup creation precedes pruning: the pruning step is reached,
\* and a DELETE is sent, only after the create POST was accepted and the poll
\* fetched state 'available'; a rotation whose creation or poll failed ends
\* with failure and without a single DELETE.
CreationPrecedesPruning ==
    InRotation =>
        /\ (PruningReached \/ Sent("DELETE") # {}) =>
               (post_ok /\ polled_available /\ Sent("POST") # {})
        /\ (RotationEnded /\ ~(post_ok /\ polled_available)) =>
               (Sent("DELETE") = {} /\ op_result \in {"False", "HTTPError"})

PruningAfterCreation ==
    /\ InRotation /\ post_ok /\ polled_available
    /\ backupToDelete # NoBackup
    /\ Len(net) >= 4 /\ net[3].m = "POST"

\* C2: when a rotation that listed M matching backups after its create has
\* ended, the backups it sent a DELETE for are exactly the max(0, M - N)
\* oldest matching ones.
PrunesExactlyTheExcess ==
    (RotationEnded /\ sortedbackups # <<>>) =>
        /\ DeleteRequested = Excess
        /\ Cardinality(DeleteRequested) =
               IF Len(sortedbackups) > count THEN Len(sortedbackups) - count ELSE 0

\* the form rotateBackup itself generates for this volume:
\* <volumeName>-<first 6 characters of volumeId>-<YYYY-MM-DDTHH:MM>, nothing after it
GeneratedForm(name) ==
    /\ Len(name) = Len(VolumeName) + 8 + 16
    /\ SubSeq(name, 1, Len(VolumeName) + 8) =
           VolumeName \o <<"-">> \o SubSeq(VolumeID, 1, 6) \o <<"-">>
    /\ \A k \in 1..16 :
           LET c == name[Len(VolumeName) + 8 + k]
           IN  CASE k \in {5, 8} -> c = "-"
                 [] k = 11       -> c = "T"
                 [] k = 14       -> c = ":"
                 [] OTHER        -> c \in Digits

InvalidCountNoNetwork ==
    (InRotation /\ count \notin 1..30) =>
        (net = <<>> /\ rot_pc = "done" /\ op_out = "returned" /\ op_result = "False")

InvalidCountRejected ==
    /\ InRotation /\ count = 31
    /\ net = <<>> /\ op_out = "returned" /\ op_result = "False"

PruneFailureDoesNotAbort ==
    (InRotation /\ backupToDelete # NoBackup) =>
        /\ op_out # "raised"
        /\ RotationEnded => \A id \in Excess : id \in DeleteRequested


\* a 500 whose message carries the job-queue-full phrase, and any other 500
QueueFull500(resp) == resp.status = 500 /\ resp.reason = BodyWith(MsgQueueFull)
Other500(resp) ==
    resp.status = 500 /\ resp.reason \in {BodyNoMessage, BodyWith(MsgOther)}
\* the step sends a request and receives its response
RequestStep == ex_pc = "request" /\ nreq' = nreq + 1
\* the step is a backoff sleep of 50 to 69 seconds, after which the same
\* request is sent again unless the deadline has been reached
BackoffThenRetry ==
    /\ nsleep' = nsleep + 1
    /\ now' - now \in 50..69
    /\ nreq' = nreq /\ net' = net
    /\ ex_method' = ex_method /\ ex_url' = ex_url /\ target_time' = target_time
    /\ ex_pc' = IF now' >= target_time THEN "exit" ELSE "request"

\* C8: with a non-zero timeout a 429 or 409 response, whatever its body, is
\* followed by one backoff sleep of 50 to 69 seconds and then, if the deadline
\* has not been reached after the sleep, by the same request again.
RetryOn429And409 ==
    [][ /\ (RequestStep /\ timeout_seconds # 0 /\ r'.status \in {429, 409}) =>
               ex_pc' = "sleep"
        /\ (ex_pc = "sleep" /\ r.status \in {429, 409}) => BackoffThenRetry
        /\ (RequestStep /\ nreq >= 1) =>
               net' = Append(net, net[Len(net)])
      ]_vars

RetryPendingAfter409 ==
    /\ ex_pc = "request" /\ nreq = 1 /\ nsleep = 1
    /\ r.status = 409 /\ r.reason = BodyWith(MsgOther)
    /\ now < target_time

\* C9: a 500 with the job-queue-full phrase as first response is followed by
\* one backoff sleep of 50 to 69 seconds; a 200 answer to the request sent
\* after it ends the loop with two requests and one sleep, and the executor
\* returns that response.
RetryOnQueueFull ==
    [][ /\ (RequestStep /\ nreq = 0 /\ timeout_seconds # 0 /\ QueueFull500(r')) =>
               ex_pc' = "sleep"
        /\ (ex_pc = "sleep" /\ nreq = 1 /\ QueueFull500(r)) => BackoffThenRetry
        /\ (RequestStep /\ nreq = 1 /\ QueueFull500(r) /\ r'.status = 200) =>
               (nreq' = 2 /\ nsleep' = 1 /\ nsleep = 1 /\ ex_pc' = "exit")
        /\ (ex_pc = "exit" /\ ex_caller = "direct" /\ r.status = 200) =>
               (op_out' = "returned" /\ op_result' = "response" /\ r' = r
                /\ nreq' = nreq /\ nsleep' = nsleep)
      ]_vars

RetryPendingAfterQueueFull ==
    /\ ex_pc = "request" /\ nreq = 1 /\ nsleep = 1
    /\ QueueFull500(r) /\ now < target_time

\* C10: a 500 whose message is not the job-queue-full phrase, or that has no
\* message, ends the loop at once: no sleep follows it (one request and no
\* sleep when it is the first response) and the executor raises HTTPError.
Other500IsPermanent ==
    Other500(r) =>
        /\ ex_pc \in {"exit", "done"}
        /\ nsleep = nreq - 1
        /\ (ex_pc = "done" => (op_out = "raised" /\ op_result = "HTTPError"))

Other500FailedAtOnce ==
    /\ ex_pc = "done" /\ timeout_seconds # 0
    /\ r.status = 500 /\ r.reason = BodyNoMessage
    /\ nreq = 1 /\ nsleep = 0 /\ op_out = "raised"


\* an error status outside the retried ones: 4xx / 5xx other than 429, 409, 500
OtherErrorStatus(status) ==
    status >= 400 /\ status < 600 /\ status \notin {429, 409, 500}
\* a response that _do_api_post / _do_api_delete answer with a backoff sleep
Retryable(resp) == resp.status \in {429, 409} \/ QueueFull500(resp)
\* the loop of the executor was left by the deadline check after a sleep
ExecTimedOut ==
    /\ ex_pc \in {"exit", "done"} /\ timeout_seconds # 0
    /\ nreq >= 1 /\ nsleep = nreq

\* C11: a 4xx / 5xx status other than 429, 409 and 500 ends the loop at once:
\* no sleep follows it, it stays the last response (no request is sent after
\* it) and the executor raises HTTPError.
OtherStatusIsPermanent ==
    OtherErrorStatus(r.status) =>
        /\ ex_pc \in {"exit", "done"}
        /\ nsleep = nreq - 1
        /\ (ex_pc = "done" => (op_out = "raised" /\ op_result = "HTTPError"))

OtherStatusFailedAfterRetry ==
    /\ ex_pc = "done" /\ timeout_seconds # 0
    /\ r.status = 404 /\ nreq = 2 /\ nsleep = 1
    /\ op_out = "raised" /\ op_result = "HTTPError"

\* C12 as stated: an executor that ran into its deadline on retryable
\* responses ends with a TimeoutError, an outcome other than that of a
\* permanent failure.
TimeoutRaisesTimeoutError ==
    (ExecTimedOut /\ ex_pc = "done") =>
        (op_out = "raised" /\ op_result = "TimeoutError")

\* C12: an executor whose deadline is reached after a sleep, every response
\* having been retryable, ends with the HTTPError of raise_for_status() on the
\* last response (status and body); a request is sent again only before the
\* deadline; every failure of the executor, permanent or by deadline, is an
\* HTTPError.
TimeoutRaisesHTTPError ==
    /\ ExecTimedOut =>
           /\ now >= target_time
           /\ Retryable(r)
           /\ (ex_pc = "done" => (op_out = "raised" /\ op_result = "HTTPError"))
    /\ (ex_pc = "request" /\ nreq >= 1) => now < target_time
    /\ (ex_pc = "done" /\ op_out = "raised") => op_result = "HTTPError"

TimedOutOnQueueFull ==
    /\ ExecTimedOut /\ ex_pc = "done" /\ timeout_seconds = DeleteDefaultTimeout
    /\ QueueFull500(r) /\ nreq = 2
    /\ op_out = "raised" /\ op_result = "HTTPError"

\* C13: with timeout_seconds = 0 the executor sends exactly one request and
\* never sleeps, whatever the response; a 4xx / 5xx response, the 500 with the
\* job-queue-full phrase included, makes it raise HTTPError, any other
\* response is returned.
ZeroWindowOneRequest ==
    /\ (timeout_seconds = 0 /\ nreq >= 1) =>
           /\ nreq = 1 /\ nsleep = 0
           /\ ex_pc \in {"exit", "done"}
           /\ (ex_pc = "done" /\ r.status >= 400) =>
                  (op_out = "raised" /\ op_result = "HTTPError")
           /\ (ex_pc = "done" /\ r.status < 400) => op_out = "returned"
    /\ ex_pc = "sleep" => timeout_seconds # 0

ZeroWindowQueueFullFailed ==
    /\ ex_pc = "done" /\ ex_method = "DELETE" /\ timeout_seconds = 0
    /\ QueueFull500(r) /\ nreq = 1 /\ nsleep = 0
    /\ op_out = "raised" /\ op_result = "HTTPError"

\* _do_api_post was called with timeout_seconds = 0 and answered 429
ZeroBudget429 ==
    ex_method = "POST" /\ timeout_seconds = 0 /\ nreq >= 1 /\ r.status = 429

\* C14 as stated: _do_api_post with a deadline of now + 0 and a 429 response
\* ends with a TimeoutError after exactly one attempt.
ZeroBudget429TimeoutError ==
    (ZeroBudget429 /\ ex_pc = "done") =>
        (nreq = 1 /\ op_out = "raised" /\ op_result = "TimeoutError")

\* C14: _do_api_post with a deadline of now + 0 and a 429 response ends after
\* exactly one attempt and no sleep, with the HTTPError of raise_for_status().
ZeroBudget429HTTPError ==
    ZeroBudget429 =>
        /\ ex_pc \in {"exit", "done"}
        /\ nreq = 1 /\ nsleep = 0
        /\ (ex_pc = "done" => (op_out = "raised" /\ op_result = "HTTPError"))

ZeroBudget429Failed ==
    /\ ZeroBudget429 /\ ex_pc = "done" /\ target_time = StartTime
    /\ nreq = 1 /\ op_out = "raised"

CreateOps == {"createVolume", "createPool", "createBackup"}
VolumeOps == {"createVolume", "createPool"}
\* the executor gave the response to the POST back to the create operation
CreatePostAnswered ==
    /\ op \in CreateOps /\ ex_pc = "off"
    /\ r # NoResponse /\ ~RaisesForStatus(r.status)
\* the operation is in its poll loop, or was
Polling ==
    \/ op = "createBackup" /\ rot_pc \in {"poll", "fetch"}
    \/ op # "createBackup" /\ lro_pc \in {"poll", "fetch"}
EnteredPoll == Polling \/ npoll > 0
LastFetched == fetched[Len(fetched)]

\* C16: createVolume, createPool and createBackup take a 200 or 201 answer to
\* their POST as success without polling (no poll is entered and the result
\* is neither False nor the empty dict), and poll after a 202.
CreateStatusContract ==
    CreatePostAnswered =>
        /\ r.status \in {200, 201} =>
               (~EnteredPoll /\ op_result \notin {"False", "{}"})
        /\ r.status = 202 => EnteredPoll

\* C17: the poll of createVolume / createPool returns the first fetched
\* resource whose state is not 'creating': every fetch before the last one saw
\* 'creating', the poll goes on while that is all it saw, and it returns with
\* the state of the last fetch after as many GETs as states were fetched.
PollReturnsFirstNonCreating ==
    (op \in VolumeOps /\ EnteredPoll) =>
        /\ \A k \in 1..(Len(fetched) - 1) : fetched[k] = "creating"
        /\ lro_pc \in {"poll", "fetch"} =>
               (op_out = "running" /\ \A k \in 1..Len(fetched) : fetched[k] = "creating")
        /\ lro_pc = "done" =>
               /\ fetched # <<>> /\ LastFetched # "creating"
               /\ op_out = "returned" /\ op_result = LastFetched
               /\ npoll = Len(fetched) /\ Cardinality(Sent("GET")) = Len(fetched)

ReturnedAfterThirdFetch ==
    /\ op = "createVolume" /\ lro_pc = "done"
    /\ fetched = <<"creating", "creating", "available">>
    /\ Cardinality(Sent("GET")) = 3
    /\ op_out = "returned" /\ op_result = "available"

\* C18: in the polls of createBackup and breakVolumeReplicationByID a fetched
\* state 'error' ends the poll at that fetch with a raised error.
ErrorStateEndsPoll ==
    (op \in {"createBackup", "breakVolumeReplicationByID"}
         /\ fetched # <<>> /\ LastFetched = "error") =>
        (op_out = "raised" /\ op_result = "RuntimeError")

\* a pass of the poll of breakVolumeReplicationByID that fetched a state which
\* is neither 'available' nor 'error'
BreakFetchNonTerminal ==
    /\ op = "breakVolumeReplicationByID" /\ lro_pc = "fetch"
    /\ fetched' = Append(fetched, "creating")

\* C19: a pass of the poll of breakVolumeReplicationByID that fetched a
\* non-terminal state raises TimeoutError if by then more than 5 minutes have
\* passed since the poll started, and goes on polling otherwise; TimeoutError
\* is raised in no other way.
BreakPollTimesOut ==
    [][ /\ BreakFetchNonTerminal =>
               IF now' > start + 5 * 60
               THEN op_out' = "raised" /\ op_result' = "TimeoutError"
               ELSE lro_pc' = "poll" /\ op_out' = "running"
        /\ (op_result' = "TimeoutError" /\ op_result # "TimeoutError") =>
               BreakFetchNonTerminal
      ]_vars

BreakTimedOut ==
    /\ op = "breakVolumeReplicationByID"
    /\ op_out = "raised" /\ op_result = "TimeoutError"
    /\ Len(fetched) = 21 /\ now = start + 21 * BreakPollInterval

\* a pass of the poll of a create operation that fetched the state 'creating'
CreateFetchNonTerminal ==
    /\ op \in CreateOps /\ Polling
    /\ fetched' = Append(fetched, "creating")

\* C20: the polls of createVolume, createPool and createBackup look at no
\* clock: a pass that fetched 'creating' leaves the operation polling, neither
\* returned nor raised, however long it has been polling.
CreatePollHasNoDeadline ==
    [][ CreateFetchNonTerminal =>
            (Polling' /\ op_out' = "running")
      ]_vars

StillPollingAfterThreeFetches ==
    /\ op = "createPool" /\ lro_pc = "poll" /\ op_out = "running"
    /\ fetched = <<"creating", "creating", "creating">>
    /\ now >= StartTime + 3 * CreatePollInterval


\* the step is a fetch of a poll loop / a sleep of a poll loop
PollFetchStep == npoll' = npoll + 1
PollSleepStep == npollsleep' = npollsleep + 1
\* the poll interval of the operation
PollIntervalOf(operation) ==
    CASE operation = "createBackup" -> 5
      [] operation = "breakVolumeReplicationByID" -> 15
      [] OTHER -> 20

\* C21: a fetch of a poll loop that is answered with an error status ends the
\* operation at that fetch with HTTPError: the loop is left, no state is taken
\* from the answer, and after it no request is sent and no time is slept.
FetchFailureNotRetried ==
    [][ /\ (PollFetchStep /\ get_status' >= 400) =>
               /\ op_out' = "raised" /\ op_result' = "HTTPError"
               /\ ~Polling' /\ fetched' = fetched
        /\ op_out = "raised" =>
               (net' = net /\ now' = now /\ npoll' = npoll /\ npollsleep' = npollsleep)
      ]_vars

SecondFetchFailed ==
    /\ op = "createVolume" /\ lro_pc = "raised"
    /\ npoll = 2 /\ fetched = <<"creating">> /\ get_status = 503
    /\ op_out = "raised" /\ op_result = "HTTPError"


\* the names of the table of the translator that was called
TableOf(translator) ==
    IF translator = "translateServiceLevelAPI2UI"
    THEN {"basic", "standard", "extreme", "standard-sw"}
    ELSE {"standard", "premium", "extreme", "standard-sw"}

\* C22: on the names of its table each translator is undone by the other one:
\* translating the result back gives the name that was passed, for the four
\* API names and for the four UI names; 'standard' is translated to another
\* name in both directions.
TranslatorsAreInverse ==
    (op \in Translators /\ args.serviceLevel \in TableOf(op)) =>
        /\ translated[1] \in TableOf(OtherTranslator(op))
        /\ Len(translated) = 2 => translated[2] = args.serviceLevel
        /\ args.serviceLevel = "standard" => translated[1] # "standard"

StandardRoundTrip ==
    /\ op = "translateServiceLevelAPI2UI" /\ args.serviceLevel = "standard"
    /\ translated = <<"premium", "standard">>

\* C23: a translator called with a name outside its table raises
\* UnknownServiceLevelError, and every service level that
\* setServiceLevelByVolumeID sends is an API name.
UnknownLevelRejected ==
    /\ (op \in Translators /\ args.serviceLevel \notin TableOf(op)) =>
           (op_out = "raised" /\ op_result = "UnknownServiceLevelError")
    /\ (op = "setServiceLevelByVolumeID" /\ sent_payload # NoPayload) =>
           sent_payload.serviceLevel \in {"basic", "standard", "extreme", "standard-sw"}

\* C27: createVolumeReplication with a schedule other than 10minutely, hourly
\* and daily ends with ValueError and without a request, whatever the flags
\* of the destination volume.
InvalidScheduleRejected ==
    (op = "createVolumeReplication"
         /\ args.schedule \notin {"10minutely", "hourly", "daily"}) =>
        (op_out = "raised" /\ op_result = "ValueError" /\ net = <<>>)

\* C28: createReverseVolumeReplicationByID sends a POST only after it read
\* mirrorState 'broken' and relationshipStatus 'idle'; if it read anything
\* else it ends with ValueError and no POST is sent.
ReverseOnlyWhenBrokenAndIdle ==
    op = "createReverseVolumeReplicationByID" =>
        /\ Sent("POST") # {} =>
               (args # NoArgs /\ args.mirrorState = "broken"
                /\ args.relationshipStatus = "idle")
        /\ (args # NoArgs
               /\ ~(args.mirrorState = "broken" /\ args.relationshipStatus = "idle")) =>
               (op_out = "raised" /\ op_result = "ValueError" /\ Sent("POST") = {})

ReversedAfterBrokenIdle ==
    /\ op = "createReverseVolumeReplicationByID" /\ args # NoArgs
    /\ args.mirrorState = "broken" /\ args.relationshipStatus = "idle"
    /\ Cardinality(Sent("POST")) = 1
    /\ op_out = "returned" /\ op_result = "response"


\* the instant at which rotateBackup computed the name: the entry into the
\* executor for the create POST, whose window is 10*60 seconds
NamedAt == target_time - 10 * 60
\* the seconds of the minute of the instant t
SameMinute(t) == {60 * (t \div 60) + k : k \in 0..59}

EntersExecutor == ex_pc \notin {"request", "sleep"} /\ ex_pc' = "request"

\* C25: every invocation of the executor counts its deadline from its own
\* entry: on entry the whole window timeout_seconds lies ahead, whatever time
\* the method has already spent (in rotateBackup the whole 10 minutes), and
\* the deadline does not move during the invocation.
EveryInvocationHasOwnDeadline ==
    [][ /\ EntersExecutor =>
               /\ target_time' = now' + timeout_seconds'
               /\ nreq' = 0 /\ nsleep' = 0
               /\ InRotation' => target_time' - now' = 10 * 60
        /\ ex_pc \in {"request", "sleep"} =>
               (target_time' = target_time /\ timeout_seconds' = timeout_seconds)
      ]_vars

\* the create POST of a rotation is about to be retried, in a window of
\* 10 minutes that began two seconds after the rotation did
RetryInOwnWindow ==
    /\ InRotation /\ ex_pc = "request" /\ nreq = 1 /\ nsleep = 1
    /\ target_time = StartTime + 2 + 10 * 60


\* the four outcomes of the executor; one pass of the loop ends in one of the
\* first three, the fourth is the deadline check after a sleep
Outcomes == {"success", "transient retry", "permanent failure", "timeout"}
PassOutcome(method, ts, resp) ==
    IF LoopBody(method, ts, resp) = "sleep" THEN "transient retry"
    ELSE IF RaisesForStatus(resp.status) THEN "permanent failure"
    ELSE "success"
\* the log records the executor writes when it passes through an outcome; the
\* deadline check writes none
Emits(outcome) ==
    IF outcome = "timeout" THEN {}
    ELSE UNION { {do_api_log(ts, resp)[k] : k \in 1..Len(do_api_log(ts, resp))} :
                 <<ts, resp>> \in
                     {x \in DirectTimeouts \X Responses :
                          \E method \in {"POST", "DELETE"} :
                              PassOutcome(method, x[1], x[2]) = outcome} }
\* the outcomes a finished invocation has passed through
OutcomesPassed ==
    {PassOutcome(ex_method, timeout_seconds, r)}
    \cup (IF nsleep > 0 THEN {"transient retry"} ELSE {})
    \cup (IF ExecTimedOut THEN {"timeout"} ELSE {})

\* C26: a finished invocation of the executor has, for every outcome it passed
\* through, a record in its log that the executor writes on that outcome and
\* on no other.
OutcomesObservable ==
    ex_pc \in {"exit", "done"} =>
        \A o \in OutcomesPassed :
            \E k \in 1..Len(log) :
                /\ log[k] \in Emits(o)
                /\ \A other \in Outcomes \ {o} : log[k] \notin Emits(other)


\* C29: in the poll loops of createVolume, createPool, createBackup and
\* breakVolumeReplicationByID every fetch comes right after one sleep of the
\* poll interval, during which nothing is sent: a fetch is the (n+1)-th when
\* n+1 sleeps were taken, a sleep the (n+1)-th when n fetches were made, and
\* when the loop has been left there were as many sleeps as fetches.
EachFetchAfterOneSleep ==
    [][ /\ PollFetchStep => npollsleep = npoll + 1
        /\ PollSleepStep =>
               /\ npollsleep = npoll
               /\ now' = now + PollIntervalOf(op)
               /\ net' = net
        /\ (EnteredPoll' /\ ~Polling') => npollsleep' = npoll'
      ]_vars

\* breakVolumeReplicationByID has left its poll after two sleeps and fetches
BreakPollEndedAfterTwo ==
    /\ op = "breakVolumeReplicationByID" /\ op_out = "returned"
    /\ npoll = 2 /\ npollsleep = 2
    /\ now >= StartTime + 2 * BreakPollInterval


\* the number of requests the legacy method may send: its initial retries
LegacyBudget == IF op = LegacyCreate THEN args.timeout ELSE LegacyDeleteRetries

\* C30: the legacy createVolume sends at most `timeout` POSTs and the legacy
\* deleteVolumeByVolumeID at most 10 DELETEs; each request after the first
\* follows one sleep, and a sleep follows only a 500 whose message starts
\* with the job-slot text of the method: a 429 or a 409 is never slept on,
\* and the method that got one ends with HTTPError.
LegacyRetriesBoundedByCount ==
    (op \in {LegacyCreate, LegacyDelete}) =>
        /\ Cardinality(Sent(LegacyMethod(op))) <= LegacyBudget
        /\ Cardinality(Sent(LegacyMethod(op))) <= (LegacyBudget - retries) + 1
        /\ op = LegacyCreate => Sent("DELETE") = {}
        /\ op = LegacyDelete => Sent("POST") = {} /\ LegacyBudget = 10
        /\ lg_pc = "sleep" =>
               /\ r.status = 500
               /\ "message" \in DOMAIN r.reason
               /\ startswith(r.reason.message, LegacyPrefix(op))
        /\ (r.status \in {429, 409} /\ lg_pc \in {"raised", "done"}) =>
               (op_out = "raised" /\ op_result = "HTTPError")

\* createVolume with the default timeout has sent its tenth POST, each one
\* answered with the job-slot 500, and gave up after ten sleeps
TenPostsThenGaveUp ==
    /\ op = LegacyCreate /\ args.timeout = LegacyDefaultTimeout
    /\ Cardinality(Sent("POST")) = 10 /\ retries = 0
    /\ now >= StartTime + 10 * LegacySleepSeconds
    /\ op_out = "raised" /\ op_result = "HTTPError"


\* ceil(a / b) for a >= 0, b > 0
CeilDiv(a, b) == (a + b - 1) \div b

\* C31: an invocation of the executor with a window of T > 0 seconds sends at
\* most ceil(T / 50) requests (12 for T = 600, 3 for T = 120), whatever the
\* responses: every request after the first follows a sleep, there are never
\* more sleeps than requests, and a request is sent again only before the
\* deadline.
RequestsBoundedByWindow ==
    (ex_pc # "off" /\ timeout_seconds > 0) =>
        /\ nreq <= CeilDiv(timeout_seconds, BackoffLo)
        /\ timeout_seconds = 600 => nreq <= 12
        /\ timeout_seconds = 120 => nreq <= 3
        /\ nsleep <= nreq /\ nreq <= nsleep + 1
        /\ (ex_pc = "request" /\ nreq >= 1) => now < target_time

\* twelve requests, each answered with a retried status, used up the window
\* of 600 seconds
TwelveRequestsIn600 ==
    /\ ex_pc = "done" /\ timeout_seconds = 600
    /\ nreq = 12 /\ nsleep = 12 /\ Retryable(r)
    /\ op_out = "raised"


\* the step leaves the loop of the executor by the deadline check / by a break
LeftByDeadline == ex_pc = "sleep" /\ ex_pc' = "exit"
LeftByBreak    == ex_pc = "request" /\ ex_pc' = "exit"

\* C32: the deadline is looked at only after a retried response and the
\* sleep that follows it.  A retried response is slept on even when the
\* deadline has passed meanwhile; a run that ends by the deadline ends with a
\* sleep of 50 to 69 seconds, at or after the deadline and less than one
\* sleep and one response time after it, with as many sleeps as requests; a
\* run that ends by a break has one sleep less than requests.
DeadlineCheckedAfterSleep ==
    [][ /\ (RequestStep /\ timeout_seconds # 0 /\ Retryable(r')) =>
               (ex_pc' = "sleep" /\ nsleep' = nsleep)
        /\ ex_pc' = "sleep" => (Retryable(r') /\ timeout_seconds' # 0)
        /\ LeftByDeadline =>
               /\ now' - now \in 50..69
               /\ now' >= target_time
               /\ now' < target_time + BackoffHi + MaxLatency
               /\ nsleep' = nreq' /\ nreq' = nreq
               /\ net' = net /\ r' = r
        /\ LeftByBreak => nsleep' = nreq' - 1
        /\ (ex_pc = "sleep" /\ ex_pc' = "request") => now' < target_time
      ]_vars

\* with a window of one second a single 429 was slept on for 69 seconds
\* before the call failed
ShortWindowCostsFullSleep ==
    /\ ex_pc = "done" /\ timeout_seconds = ShortTimeout
    /\ nreq = 1 /\ nsleep = 1 /\ r.status = 429
    /\ now = target_time + 69
    /\ op_out = "raised"


\* where the executor goes after a pass of the loop that ended in "break" or
\* "sleep"
AfterPass(decision) == IF decision = "sleep" THEN "sleep" ELSE "exit"

\* C33: _do_api_post and _do_api_delete take the same steps on the same
\* inputs.  After every response either method goes where the body of the
\* other would go for this window and response; where a sleep leads depends
\* on the clock and the deadline only, and the outcome on the status of the
\* last response only.
PostAndDeleteEquivalent ==
    [][ /\ RequestStep =>
               /\ ex_pc' = AfterPass(do_api_post_body(timeout_seconds, r'))
               /\ ex_pc' = AfterPass(do_api_delete_body(timeout_seconds, r'))
               /\ nsleep' = nsleep /\ Len(net') = Len(net) + 1
        /\ ex_pc = "sleep" =>
               /\ ex_pc' = (IF now' >= target_time THEN "exit" ELSE "request")
               /\ nsleep' = nsleep + 1 /\ nreq' = nreq /\ r' = r
               /\ now' - now \in BackoffDraws
        /\ (ex_pc = "exit" /\ ex_pc' = "done") =>
               /\ op_out' = (IF r.status >= 400 THEN "raised" ELSE "returned")
               /\ nreq' = nreq /\ nsleep' = nsleep /\ r' = r
      ]_vars

\* a DELETE was retried twice and then failed on a 500 that is not retried
DeleteRetriedThenFailed ==
    /\ ex_method = "DELETE" /\ ex_pc = "done" /\ timeout_seconds = 600
    /\ nreq = 3 /\ nsleep = 2 /\ Other500(r)
    /\ op_out = "raised"


\* C34: once a rotation has reached its pruning step, the backup it created
\* is still held by the service, is the first of the sorted list with every
\* other entry created before it, is not among the entries from index count
\* on, is not the backup handed to the delete call and has had no DELETE sent
\* for it.
NewBackupSurvivesPruning ==
    (InRotation /\ PruningReached) =>
        /\ \E b \in backups : b.backupId = backupID /\ b.name = backupname
        /\ Len(sortedbackups) >= 1
        /\ sortedbackups[1].backupId = backupID
        /\ \A k \in 2..Len(sortedbackups) :
               sortedbackups[k].created < sortedbackups[1].created
        /\ backupID \notin Excess
        /\ backupToDelete.backupId # backupID
        /\ backupID \notin DeleteRequested

\* a rotation keeping one backup handed the newest of two older ones to the
\* delete call, its own new backup being the first of the three
PrunedBehindNewBackup ==
    /\ InRotation /\ count = 1 /\ Len(sortedbackups) = 3
    /\ sortedbackups[1].backupId = backupID
    /\ backupToDelete = sortedbackups[2]
    /\ \E b \in backups : b.backupId = backupID


\* the backups of the volume whose names the expression of rotateBackup matches
MatchingHeld == {b \in backups : PatternMatch(BackupPattern(VolumeName), b.name)}
\* the call of rotateBackup has returned True
RotationSucceeded == InRotation /\ op_out = "returned" /\ op_result = "True"

\* C35: whenever a call of rotateBackup in a sequence of calls with the same
\* count has returned True, the volume holds at most count backups whose
\* names match the expression.
SuccessLeavesAtMostN ==
    RotationSucceeded => Cardinality(MatchingHeld) <= count

\* the third call in a row with count 3 on a volume that had no backup
\* returned True with three matching backups held
ThirdRotationKeptThree ==
    /\ RotationSucceeded /\ nrepeat = 2 /\ count = 3
    /\ Cardinality(MatchingHeld) = 3
    /\ Cardinality(backups) = 3

\* the step sends the create POST of a rotation
CreatePostStep ==
    /\ Len(net') = Len(net) + 1
    /\ net'[Len(net')].m = "POST" /\ net'[Len(net')].url = UrlBackups

\* C36: through any sequence of rotations, one after the other, on a volume
\* that began with at most 32 backups the volume never holds more than 32: a
\* backup is added only by the create POST of a rotation, one at a time, and
\* that POST is sent only when the first listing of the rotation held fewer
\* than 32 backups, the number still held when the POST is sent.
NeverMoreThanMaxBackups ==
    [][ /\ Cardinality(backups') <= max_backups
        /\ CreatePostStep =>
               /\ InRotation /\ first_listing < max_backups
               /\ Cardinality(backups) = first_listing
        /\ backups' # backups =>
               /\ CreatePostStep
               /\ Cardinality(backups') = Cardinality(backups) + 1
      ]_vars

\* a volume that began with 31 backups got its 32nd from one rotation, and
\* the next rotation was refused
RefusedAtMaxBackups ==
    /\ InRotation /\ nrepeat >= 1
    /\ Cardinality(backups) = max_backups
    /\ \E b \in backups : b.backupId > max_backups
    /\ first_listing = max_backups
    /\ op_out = "returned" /\ op_result = "False"
    /\ net = <<[m |-> "GET", url |-> UrlVolumeBackups]>>


\* b is among the n most recently created matching backups of the volume
\* however equal instants of creation are ordered: it is held, its name
\* matches and fewer than n other matching backups are as recent
AmongMostRecent(b, n) ==
    /\ b \in backups
    /\ PatternMatch(BackupPattern(VolumeName), b.name)
    /\ Cardinality({c \in backups \ {b} :
                        /\ c.created >= b.created
                        /\ PatternMatch(BackupPattern(VolumeName), c.name)}) < n

\* C37: with two calls of rotateBackup for the same volume and count running
\* at once, neither hands to its delete call, and no DELETE is sent for, a
\* backup that is among the count most recently created matching backups the
\* volume holds.
ConcurrentRotationsKeepNewest ==
    (InRotation /\ RetentionValid(count)) =>
        /\ ~AmongMostRecent(backupToDelete, count)
        /\ ~AmongMostRecent(o_backupToDelete, count)
        /\ \A b \in backups :
               b.backupId \in DeleteRequested => ~AmongMostRecent(b, count)

\* both calls made their backup, the second one first, and both got as far
\* as their pruning loop, each with a list of its own
BothReachedPruning ==
    /\ InRotation /\ count = 1
    /\ backupToDelete # NoBackup /\ o_backupToDelete # NoBackup
    /\ backupToDelete \in backups /\ o_backupToDelete \in backups
    /\ backupToDelete # o_backupToDelete
    /\ o_backupID # 0 /\ backupID > o_backupID
    /\ Len(sortedbackups) > Len(o_sortedbackups)


InBreak == op = "breakVolumeReplicationByID"

\* C38: the poll of breakVolumeReplicationByID makes at most 21 fetches, each
\* after a sleep of 15 seconds: it goes on only while no more than 5 minutes
\* have passed since it began, and once a fetch has returned and the poll is
\* over the method has returned the state 'available' or raised RuntimeError
\* or TimeoutError.
BreakPollEndsWithin21 ==
    InBreak =>
        /\ npoll <= 21 /\ npollsleep <= 21
        /\ now >= start + npollsleep * BreakPollInterval
        /\ lro_pc = "poll" => now <= start + BreakWindow
        /\ lro_pc = "fetch" => now <= start + BreakWindow + BreakPollInterval
        /\ (lro_pc \in {"done", "raised"} /\ npoll >= 1 /\ get_status < 400) =>
               op_result \in {"available", "RuntimeError", "TimeoutError"}

\* the 21st fetch, like the twenty before it, found the state 'creating',
\* and the poll gave up
GaveUpAtFetch21 ==
    /\ InBreak /\ lro_pc = "raised" /\ op_result = "TimeoutError"
    /\ npoll = 21 /\ npollsleep = 21
    /\ \A k \in 1..21 : fetched[k] = "creating"

\* the step is a fetch of the poll of breakVolumeReplicationByID that
\* returned a state
BreakFetchReturned ==
    /\ InBreak /\ lro_pc = "fetch" /\ PollFetchStep
    /\ get_status' < 400 /\ Len(fetched') = Len(fetched) + 1

\* C39: in the poll of breakVolumeReplicationByID a fetch that returned
\* 'available' ends the method with that resource and one that returned
\* 'error' with RuntimeError, the 5 minutes being over or not; TimeoutError is
\* raised only by a fetch that returned another state after the 5 minutes.
StateExaminedBeforeDeadline ==
    [][ /\ (BreakFetchReturned /\ LastFetched' = "available") =>
               (op_out' = "returned" /\ op_result' = "available")
        /\ (BreakFetchReturned /\ LastFetched' = "error") =>
               (op_out' = "raised" /\ op_result' = "RuntimeError")
        /\ (op_result' = "TimeoutError" /\ op_result # "TimeoutError") =>
               /\ BreakFetchReturned
               /\ LastFetched' \notin {"available", "error"}
               /\ now' > start + BreakWindow
      ]_vars

\* the state 'available' was fetched more than 5 minutes after the poll
\* began, and the method returned it
AvailableAfterDeadline ==
    /\ InBreak /\ op_out = "returned" /\ op_result = "available"
    /\ npoll = 21 /\ now > start + BreakWindow

====
